---- MODULE Spec2Model ----
(***************************************************************************)
(* Our Garden: the deterministic layout engine of lib/garden.ts and        *)
(* lib/hiddenMessage.ts.                                                   *)
(*                                                                         *)
(* Numbers that are floating point in the program are exact rationals      *)
(* here, written as records [n |-> numerator, d |-> denominator].          *)
(* Arrays keep the program's 0-based indices as values; the sequences      *)
(* that hold them are 1-based, so a[i] of the program is a[i + 1] here.    *)
(* An optional number (x?: number) is <<>> when absent and <<v>> when set. *)
(***************************************************************************)
EXTENDS Integers, Sequences, FiniteSets, TLC

\* ------------------------------------------------------------------------
\* Bounds of the model
\* ------------------------------------------------------------------------

\* largest day count handed to generateGarden
MaxCount == 9

\* ------------------------------------------------------------------------
\* Small helpers (JavaScript built-ins)
\* ------------------------------------------------------------------------

Max2(a, b) == IF a >= b THEN a ELSE b

Min2(a, b) == IF a <= b THEN a ELSE b

\* x ?? d for an optional number
Coalesce(x, d) == IF x = <<>> THEN d ELSE x[1]

RECURSIVE SeqMax(_)
SeqMax(s) == IF Len(s) = 1 THEN s[1] ELSE Max2(s[1], SeqMax(Tail(s)))

RECURSIVE Flat(_)
\* Array.prototype.flat() of a list of lists
Flat(ss) == IF ss = <<>> THEN <<>> ELSE Head(ss) \o Flat(Tail(ss))

RECURSIVE SelectSeqIdx(_, _, _)
\* Array.prototype.filter with the predicate given as the set of kept values
SelectSeqIdx(s, keep, k) ==
  IF k > Len(s) THEN <<>>
  ELSE (IF s[k] \in keep THEN <<s[k]>> ELSE <<>>) \o SelectSeqIdx(s, keep, k + 1)

Filter(s, keep) == SelectSeqIdx(s, keep, 1)

Range(s) == {s[k] : k \in 1..Len(s)}

RECURSIVE UniqueFrom(_, _)
\* [...new Set(list)]: first occurrences, in insertion order
UniqueFrom(s, k) ==
  IF k > Len(s) THEN <<>>
  ELSE (IF \E j \in 1..(k - 1) : s[j] = s[k] THEN <<>> ELSE <<s[k]>>)
       \o UniqueFrom(s, k + 1)

Unique(s) == UniqueFrom(s, 1)

\* ------------------------------------------------------------------------
\* lib/random: mulberry32.  The generator's source is not among the files;
\* it is modelled from its contract: a stream of numbers in [0,1) that is a
\* function of the seed and of the number of calls made so far, held in one
\* state word owned by the stream.  The model's word has RngMod values and
\* steps by a full-period linear congruence; `salt` (chosen once, see Init)
\* stands for the unknown scrambling of the seed, so that every phase of the
\* stream is explored.
\* ------------------------------------------------------------------------

RngMod == 16

RngMult == 5

RngInc == 3

\* mulberry32(seed): a fresh stream; a is the state word, n the calls made
mulberry32(seed, slt) == [a |-> (seed + slt) % RngMod, n |-> 0]

\* rng(): the stream after one more call
rngNext(rng) == [a |-> (rng.a * RngMult + RngInc) % RngMod, n |-> rng.n + 1]

\* the value returned by the call that led to `rng`, as a numerator over RngMod
rngVal(rng) == rng.a

\* ------------------------------------------------------------------------
\* lib/hiddenMessage.ts: the glyph table
\* ------------------------------------------------------------------------

PIXEL_FONT ==
     " " :> <<<<0,0,0,0,0,0>>, <<0,0,0,0,0,0>>, <<0,0,0,0,0,0>>, <<0,0,0,0,0,0>>, <<0,0,0,0,0,0>>, <<0,0,0,0,0,0>>, <<0,0,0,0,0,0>>>>
  @@ "A" :> <<<<0,0,1,1,0,0>>, <<0,1,0,0,1,0>>, <<1,0,0,0,0,1>>, <<1,1,1,1,1,1>>, <<1,0,0,0,0,1>>, <<1,0,0,0,0,1>>, <<1,0,0,0,0,1>>>>
  @@ "B" :> <<<<1,1,1,1,1,0>>, <<1,0,0,0,0,1>>, <<1,1,1,1,1,0>>, <<1,0,0,0,0,1>>, <<1,0,0,0,0,1>>, <<1,0,0,0,0,1>>, <<1,1,1,1,1,0>>>>
  @@ "C" :> <<<<0,0,1,1,1,1>>, <<0,1,0,0,0,0>>, <<1,0,0,0,0,0>>, <<1,0,0,0,0,0>>, <<1,0,0,0,0,0>>, <<0,1,0,0,0,0>>, <<0,0,1,1,1,1>>>>
  @@ "E" :> <<<<1,1,1,1,1,1>>, <<1,0,0,0,0,0>>, <<1,1,1,1,1,0>>, <<1,0,0,0,0,0>>, <<1,0,0,0,0,0>>, <<1,0,0,0,0,0>>, <<1,1,1,1,1,1>>>>
  @@ "F" :> <<<<1,1,1,1,1,1>>, <<1,0,0,0,0,0>>, <<1,1,1,1,1,0>>, <<1,0,0,0,0,0>>, <<1,0,0,0,0,0>>, <<1,0,0,0,0,0>>, <<1,0,0,0,0,0>>>>
  @@ "H" :> <<<<1,0,0,0,0,1>>, <<1,0,0,0,0,1>>, <<1,1,1,1,1,1>>, <<1,0,0,0,0,1>>, <<1,0,0,0,0,1>>, <<1,0,0,0,0,1>>, <<1,0,0,0,0,1>>>>
  @@ "L" :> <<<<1,0,0,0,0,0>>, <<1,0,0,0,0,0>>, <<1,0,0,0,0,0>>, <<1,0,0,0,0,0>>, <<1,0,0,0,0,0>>, <<1,0,0,0,0,0>>, <<1,1,1,1,1,1>>>>
  @@ "O" :> <<<<0,1,1,1,1,0>>, <<1,0,0,0,0,1>>, <<1,0,0,0,0,1>>, <<1,0,0,0,0,1>>, <<1,0,0,0,0,1>>, <<1,0,0,0,0,1>>, <<0,1,1,1,1,0>>>>
  @@ "R" :> <<<<1,1,1,1,1,0>>, <<1,0,0,0,0,1>>, <<1,1,1,1,1,0>>, <<1,0,1,0,0,0>>, <<1,0,0,1,0,0>>, <<1,0,0,0,1,0>>, <<1,0,0,0,0,1>>>>
  @@ "U" :> <<<<1,0,0,0,0,1>>, <<1,0,0,0,0,1>>, <<1,0,0,0,0,1>>, <<1,0,0,0,0,1>>, <<1,0,0,0,0,1>>, <<1,0,0,0,0,1>>, <<0,1,1,1,1,0>>>>
  @@ "V" :> <<<<1,0,0,0,0,1>>, <<1,0,0,0,0,1>>, <<1,0,0,0,0,1>>, <<1,0,0,0,0,1>>, <<0,1,0,0,1,0>>, <<0,1,0,0,1,0>>, <<0,0,1,1,0,0>>>>
  @@ "Y" :> <<<<1,0,0,0,0,1>>, <<0,1,0,0,1,0>>, <<0,0,1,1,0,0>>, <<0,0,1,1,0,0>>, <<0,0,1,1,0,0>>, <<0,0,1,1,0,0>>, <<0,0,1,1,0,0>>>>

\* GlyphOf as it would be if a character without a glyph were drawn as "A"
GlyphOfUnknownAsA(ch) ==
  LET Lookup(font) == IF ch \in DOMAIN font THEN font[ch] ELSE font["A"]
  IN Lookup(PIXEL_FONT)

\* PIXEL_FONT[ch] ?? PIXEL_FONT[" "]
GlyphOf(ch) ==
  LET Lookup(font) == IF ch \in DOMAIN font THEN font[ch] ELSE font[" "]
  IN Lookup(PIXEL_FONT)

\* String.prototype.toUpperCase, one character at a time
toUpperCase(ch) ==
  CASE ch = "a" -> "A"
    [] ch = "l" -> "L"
    [] ch = "o" -> "O"
    [] ch = "y" -> "Y"
    [] OTHER -> ch

\* the number of 1s of a glyph
GlyphOnes(g) ==
  Cardinality({rc \in (1..Len(g)) \X (1..Len(g[1])) : g[rc[1]][rc[2]] = 1})

\* ------------------------------------------------------------------------
\* lib/hiddenMessage.ts: buildTextMask
\* A line is a sequence of one-character strings.  options is a record of
\* optional numbers charSpacing, lineSpacing, pixelScaleX, pixelScaleY.
\* ------------------------------------------------------------------------

\* the glyph keyed by the first non-blank key of PIXEL_FONT
sampleGlyph == PIXEL_FONT["A"]

\* [baseCharWidth, baseCharHeight]
baseCharSize == LET Size(glyph) == <<Len(glyph[1]), Len(glyph)>> IN Size(sampleGlyph)

\* Layout as it would be if a list of no line were laid out as one blank line
LayoutBlankLine(lines, base, charSpacing, lineSpacing, pixelScaleX, pixelScaleY) ==
  LET lineLens == [k \in 1..Len(lines) |-> Max2(Len(lines[k]), 1)]
  IN [charSpacing |-> charSpacing, lineSpacing |-> lineSpacing,
      pixelScaleX |-> pixelScaleX, pixelScaleY |-> pixelScaleY,
      baseCharWidth |-> base[1], baseCharHeight |-> base[2],
      scaledCharWidth |-> base[1] * pixelScaleX,
      scaledCharHeight |-> base[2] * pixelScaleY,
      cols |-> IF Len(lines) = 0 THEN base[1] * pixelScaleX
               ELSE SeqMax(lineLens) * (base[1] * pixelScaleX + charSpacing) - charSpacing,
      rows |-> Max2(Len(lines), 1) * (base[2] * pixelScaleY)
               + Max2(Len(lines) - 1, 0) * lineSpacing]

\* Layout as it would be if cols left no room for the spacing
LayoutNoSpacing(lines, base, charSpacing, lineSpacing, pixelScaleX, pixelScaleY) ==
  LET lineLens == [k \in 1..Len(lines) |-> Max2(Len(lines[k]), 1)]
  IN [charSpacing |-> charSpacing, lineSpacing |-> lineSpacing,
      pixelScaleX |-> pixelScaleX, pixelScaleY |-> pixelScaleY,
      baseCharWidth |-> base[1], baseCharHeight |-> base[2],
      scaledCharWidth |-> base[1] * pixelScaleX,
      scaledCharHeight |-> base[2] * pixelScaleY,
      cols |-> IF Len(lines) = 0 THEN 0
               ELSE SeqMax(lineLens) * (base[1] * pixelScaleX),
      rows |-> Len(lines) * (base[2] * pixelScaleY)
               + Max2(Len(lines) - 1, 0) * lineSpacing]

\* scaledCharWidth, scaledCharHeight, cols and rows of buildTextMask, with
\* the option values they are derived from
Layout(lines, base, charSpacing, lineSpacing, pixelScaleX, pixelScaleY) ==
  LET lineLens == [k \in 1..Len(lines) |-> Max2(Len(lines[k]), 1)]
  IN [charSpacing |-> charSpacing, lineSpacing |-> lineSpacing,
      pixelScaleX |-> pixelScaleX, pixelScaleY |-> pixelScaleY,
      baseCharWidth |-> base[1], baseCharHeight |-> base[2],
      scaledCharWidth |-> base[1] * pixelScaleX,
      scaledCharHeight |-> base[2] * pixelScaleY,
      \* Math.max() of no argument is -Infinity; with no line there is no row,
      \* so cols is never read: it is 0 here
      cols |-> IF Len(lines) = 0 THEN 0
               ELSE SeqMax(lineLens) * (base[1] * pixelScaleX + charSpacing) - charSpacing,
      rows |-> Len(lines) * (base[2] * pixelScaleY)
               + Max2(Len(lines) - 1, 0) * lineSpacing]

\* the derived layout numbers of one buildTextMask call
MaskDims(lines, options) ==
  Layout(lines, baseCharSize,
         Coalesce(options.charSpacing, 2), Coalesce(options.lineSpacing, 2),
         Max2(1, Coalesce(options.pixelScaleX, 1)),
         Max2(1, Coalesce(options.pixelScaleY, 1)))

RECURSIVE LineStamps(_, _, _, _, _, _)
\* the characters of one line in reading order, each with the letter index
\* it is given (letterCounter++ unless it is a space) and its column cursor
LineStamps(line, lineIndex, charPosition, letterCounter, colCursor, dm) ==
  IF charPosition >= Len(line) THEN <<>>
  ELSE LET ch == toUpperCase(line[charPosition + 1])
           currentIndex == IF ch = " " THEN -1 ELSE letterCounter
       IN <<[ch |-> ch, lineIndex |-> lineIndex, charPosition |-> charPosition,
             currentIndex |-> currentIndex, colCursor |-> colCursor,
             startRow |-> lineIndex * (dm.scaledCharHeight + dm.lineSpacing)]>>
          \o LineStamps(line, lineIndex, charPosition + 1,
                        IF ch = " " THEN letterCounter ELSE letterCounter + 1,
                        colCursor + dm.scaledCharWidth + dm.charSpacing, dm)

\* the number of characters of a line that are given a letter index
LettersIn(line) == Cardinality({k \in 1..Len(line) : toUpperCase(line[k]) # " "})

RECURSIVE AllStamps(_, _, _, _)
\* normalized.forEach((line, lineIndex) => ...): every character of every line
AllStamps(lines, lineIndex, letterCounter, dm) ==
  IF lineIndex >= Len(lines) THEN <<>>
  ELSE LET line == lines[lineIndex + 1]
           lineLength == Max2(Len(line), 1)
           lineWidth == lineLength * (dm.scaledCharWidth + dm.charSpacing) - dm.charSpacing
           colCursor == (dm.cols - lineWidth) \div 2
       IN LineStamps(line, lineIndex, 0, letterCounter, colCursor, dm)
          \o AllStamps(lines, lineIndex + 1, letterCounter + LettersIn(line), dm)

\* the cells (row, col) the four nested loops of one character visit with a
\* glyph pixel that is "1", before the bounds guard
StampCells(st, dm) ==
  LET Cells(glyph) ==
        {<<st.startRow + q[1] * dm.pixelScaleY + q[3],
           st.colCursor + q[2] * dm.pixelScaleX + q[4]>> :
           q \in {p \in (0..(dm.baseCharHeight - 1)) \X (0..(dm.baseCharWidth - 1))
                        \X (0..(dm.pixelScaleY - 1)) \X (0..(dm.pixelScaleX - 1)) :
                    glyph[p[1] + 1][p[2] + 1] = 1}}
  IN Cells(GlyphOf(st.ch))

\* Stamps as it would be if the xScale and yScale loops ran once
StampsUnscaled(st, dm, row, col) ==
  LET Hit(dr, dc) ==
        /\ dr >= 0 /\ dr < dm.baseCharHeight * dm.pixelScaleY
        /\ dc >= 0 /\ dc < dm.baseCharWidth * dm.pixelScaleX
        /\ dr % dm.pixelScaleY = 0 /\ dc % dm.pixelScaleX = 0
        /\ GlyphOf(st.ch)[(dr \div dm.pixelScaleY) + 1][(dc \div dm.pixelScaleX) + 1] = 1
  IN Hit(row - st.startRow, col - st.colCursor)

\* whether character st writes cell (row, col): a "1" pixel maps there
Stamps(st, dm, row, col) ==
  LET Hit(dr, dc) ==
        /\ dr >= 0 /\ dr < dm.baseCharHeight * dm.pixelScaleY
        /\ dc >= 0 /\ dc < dm.baseCharWidth * dm.pixelScaleX
        /\ GlyphOf(st.ch)[(dr \div dm.pixelScaleY) + 1][(dc \div dm.pixelScaleX) + 1] = 1
  IN Hit(row - st.startRow, col - st.colCursor)

\* mask and letterMap after every character has been stamped: a cell is on
\* when some character writes it, and carries the index of the last writer
StampedGrid(stamps, dm) ==
  LET Cell(w) == [on |-> w # {},
                  letter |-> IF w = {} THEN -1
                             ELSE stamps[CHOOSE k \in w : \A j \in w : j <= k].currentIndex]
  IN [row \in 1..dm.rows |-> [col \in 1..dm.cols |->
        Cell({k \in 1..Len(stamps) : Stamps(stamps[k], dm, row - 1, col - 1)})]]

\* StampedLetters as it would be with letterIndex: currentIndex in the metadata
StampedLettersGlobalIndex(stamps) ==
  LET Entry(st) == [ch |-> st.ch,
                    meta |-> [lineIndex |-> st.lineIndex,
                              letterIndex |-> st.currentIndex,
                              char |-> st.ch]]
      Nth(letterIdx) ==
        [i \in 1..Cardinality(letterIdx) |->
           Entry(stamps[CHOOSE k \in letterIdx : stamps[k].currentIndex = i - 1])]
  IN Nth({k \in 1..Len(stamps) : stamps[k].currentIndex # -1})

\* letters and letterMeta: one entry per character that is not a space
StampedLetters(stamps) ==
  LET Entry(st) == [ch |-> st.ch,
                    meta |-> [lineIndex |-> st.lineIndex,
                              letterIndex |-> st.charPosition,
                              char |-> st.ch]]
      Nth(letterIdx) ==
        [i \in 1..Cardinality(letterIdx) |->
           Entry(stamps[CHOOSE k \in letterIdx : stamps[k].currentIndex = i - 1])]
  IN Nth({k \in 1..Len(stamps) : stamps[k].currentIndex # -1})

\* MaskResult as it would be if the letter map counted the letters from 1
MaskResultOneBased(grid, entries) ==
  [mask |-> [row \in DOMAIN grid |-> [col \in DOMAIN grid[row] |-> grid[row][col].on]],
   letterMap |-> [row \in DOMAIN grid |->
                    [col \in DOMAIN grid[row] |-> grid[row][col].letter + 1]],
   letters |-> [i \in DOMAIN entries |-> entries[i].ch],
   letterMeta |-> [i \in DOMAIN entries |-> entries[i].meta]]

\* the object buildTextMask returns
MaskResult(grid, entries) ==
  [mask |-> [row \in DOMAIN grid |-> [col \in DOMAIN grid[row] |-> grid[row][col].on]],
   letterMap |-> [row \in DOMAIN grid |-> [col \in DOMAIN grid[row] |-> grid[row][col].letter]],
   letters |-> [i \in DOMAIN entries |-> entries[i].ch],
   letterMeta |-> [i \in DOMAIN entries |-> entries[i].meta]]

StampAll(lines, dm) ==
  LET Build(stamps) == MaskResult(StampedGrid(stamps, dm), StampedLetters(stamps))
  IN Build(AllStamps(lines, 0, 0, dm))

buildTextMask(lines, options) == StampAll(lines, MaskDims(lines, options))

\* ------------------------------------------------------------------------
\* lib/hiddenMessage.ts: generateFlowerPositionsFromMask
\* bounds is [width, height, offsetX?, offsetY?, seed?, jitter?]; density
\* and jitter are rationals [n, d] with d > 0.
\* ------------------------------------------------------------------------

\* the species field of a spawn point before assignSpeciesToPoints sets it
NoSpecies == "undefined"

\* Math.floor of a rational
Floor(q) == q.n \div q.d

\* Jitter as it would be without the - 0.5
JitterUncentred(r, jitter) == 2 * rngVal(r) * jitter.n

\* (rng() - 0.5) * jitter for the draw that led to r, as a numerator over
\* 2 * RngMod * jitter.d
Jitter(r, jitter) == (2 * rngVal(r) - RngMod) * jitter.n

RECURSIVE CellCopiesInclusive(_, _, _, _, _, _, _)
\* CellCopies as it would be with the loop test d <= totalCopies
CellCopiesInclusive(acc, d, totalCopies, row, col, maskResult, geo) ==
  IF d > totalCopies THEN acc
  ELSE LET r1 == rngNext(acc.rng)
           r2 == rngNext(r1)
           jxNum == Jitter(r1, geo.jitter)
           jyNum == Jitter(r2, geo.jitter)
           letterIndex == maskResult.letterMap[row + 1][col + 1]
           hasMeta == letterIndex >= 0 /\ letterIndex < Len(maskResult.letterMeta)
           denX == 2 * RngMod * geo.jitter.d * geo.cols
           denY == 2 * RngMod * geo.jitter.d * geo.rows
           baseX == 2 * RngMod * geo.jitter.d * col + RngMod * geo.jitter.d + jxNum
           baseY == 2 * RngMod * geo.jitter.d * row + RngMod * geo.jitter.d + jyNum
           point == [x |-> [n |-> geo.offsetX.n * denX + baseX * geo.width * geo.offsetX.d,
                            d |-> geo.offsetX.d * denX],
                     y |-> [n |-> geo.offsetY.n * denY + baseY * geo.height * geo.offsetY.d,
                            d |-> geo.offsetY.d * denY],
                     row |-> row, col |-> col,
                     pixelIndex |-> Len(acc.points),
                     letterIndex |-> letterIndex,
                     lineIndex |-> IF hasMeta THEN maskResult.letterMeta[letterIndex + 1].lineIndex
                                   ELSE 0,
                     letterChar |-> IF hasMeta THEN maskResult.letterMeta[letterIndex + 1].char
                                    ELSE "",
                     species |-> NoSpecies]
       IN IF letterIndex = -1 THEN [rng |-> r2, points |-> acc.points]
          ELSE CellCopiesInclusive([rng |-> r2, points |-> Append(acc.points, point)],
                          d + 1, totalCopies, row, col, maskResult, geo)

RECURSIVE CellCopies(_, _, _, _, _, _, _)
\* for (let d = 0; d < totalCopies; d++) { ... } of one on cell; `return`
\* inside the loop leaves the cell's callback
CellCopies(acc, d, totalCopies, row, col, maskResult, geo) ==
  IF d >= totalCopies THEN acc
  ELSE LET r1 == rngNext(acc.rng)
           r2 == rngNext(r1)
           jxNum == Jitter(r1, geo.jitter)
           jyNum == Jitter(r2, geo.jitter)
           letterIndex == maskResult.letterMap[row + 1][col + 1]
           hasMeta == letterIndex >= 0 /\ letterIndex < Len(maskResult.letterMeta)
           denX == 2 * RngMod * geo.jitter.d * geo.cols
           denY == 2 * RngMod * geo.jitter.d * geo.rows
           baseX == 2 * RngMod * geo.jitter.d * col + RngMod * geo.jitter.d + jxNum
           baseY == 2 * RngMod * geo.jitter.d * row + RngMod * geo.jitter.d + jyNum
           point == [x |-> [n |-> geo.offsetX.n * denX + baseX * geo.width * geo.offsetX.d,
                            d |-> geo.offsetX.d * denX],
                     y |-> [n |-> geo.offsetY.n * denY + baseY * geo.height * geo.offsetY.d,
                            d |-> geo.offsetY.d * denY],
                     row |-> row, col |-> col,
                     pixelIndex |-> Len(acc.points),
                     letterIndex |-> letterIndex,
                     lineIndex |-> IF hasMeta THEN maskResult.letterMeta[letterIndex + 1].lineIndex
                                   ELSE 0,
                     letterChar |-> IF hasMeta THEN maskResult.letterMeta[letterIndex + 1].char
                                    ELSE "",
                     species |-> NoSpecies]
       IN IF letterIndex = -1 THEN [rng |-> r2, points |-> acc.points]
          ELSE CellCopies([rng |-> r2, points |-> Append(acc.points, point)],
                          d + 1, totalCopies, row, col, maskResult, geo)

\* CellStep as it would be if rng() were called before fractional is tested
CellStepAlwaysDraws(acc, row, col, maskResult, geo, density) ==
  IF ~maskResult.mask[row + 1][col + 1] THEN acc
  ELSE LET baseCopies == Floor(density)
           fractionalNum == Max2(0, Min2(density.d, density.n - baseCopies * density.d))
           drawn == rngNext(acc.rng)
           extra == IF fractionalNum > 0 /\ rngVal(drawn) * density.d < fractionalNum * RngMod
                    THEN 1 ELSE 0
           totalCopies == baseCopies + extra
       IN IF totalCopies <= 0 THEN [rng |-> drawn, points |-> acc.points]
          ELSE CellCopies([rng |-> drawn, points |-> acc.points],
                          0, totalCopies, row, col, maskResult, geo)

\* the callback of rowVals.forEach((isOn, col) => ...) for one cell
CellStep(acc, row, col, maskResult, geo, density) ==
  IF ~maskResult.mask[row + 1][col + 1] THEN acc
  ELSE LET baseCopies == Floor(density)
           \* density - baseCopies, clamped to [0,1], over density.d
           fractionalNum == Max2(0, Min2(density.d, density.n - baseCopies * density.d))
           \* fractional > 0 && rng() < fractional: no draw when the left side fails
           drawn == IF fractionalNum > 0 THEN rngNext(acc.rng) ELSE acc.rng
           extra == IF fractionalNum > 0 /\ rngVal(drawn) * density.d < fractionalNum * RngMod
                    THEN 1 ELSE 0
           totalCopies == baseCopies + extra
       IN IF totalCopies <= 0 THEN [rng |-> drawn, points |-> acc.points]
          ELSE CellCopies([rng |-> drawn, points |-> acc.points],
                          0, totalCopies, row, col, maskResult, geo)

RECURSIVE RowScanRightToLeft(_, _, _, _, _, _)
\* RowScan as it would be if the cells of a row were visited from the right
RowScanRightToLeft(acc, row, col, maskResult, geo, density) ==
  IF col >= geo.cols THEN acc
  ELSE LET after == CellStep(acc, row, geo.cols - 1 - col, maskResult, geo, density)
       IN IF after.rng.n >= 0
          THEN RowScanRightToLeft(after, row, col + 1, maskResult, geo, density)
          ELSE acc

RECURSIVE RowScan(_, _, _, _, _, _)
\* rowVals.forEach((isOn, col) => ...): the cells of one row, left to right
RowScan(acc, row, col, maskResult, geo, density) ==
  IF col >= geo.cols THEN acc
  ELSE LET after == CellStep(acc, row, col, maskResult, geo, density)
       \* the test is always true: it has the cell's result computed before the next cell
       IN IF after.rng.n >= 0 THEN RowScan(after, row, col + 1, maskResult, geo, density)
          ELSE acc

RECURSIVE MaskScan(_, _, _, _, _)
\* mask.forEach((rowVals, row) => ...): the rows, top to bottom
MaskScan(acc, row, maskResult, geo, density) ==
  IF row >= geo.rows THEN acc
  ELSE LET after == RowScan(acc, row, 0, maskResult, geo, density)
       IN IF after.rng.n >= 0 THEN MaskScan(after, row + 1, maskResult, geo, density)
          ELSE acc

\* the whole scan: the spawn points and the state the stream is left in
ScanFromMask(maskResult, bounds, density, slt) ==
  LET rows == Len(maskResult.mask)
      cols == IF rows = 0 THEN 0 ELSE Len(maskResult.mask[1])
      geo == [rows |-> rows, cols |-> cols,
              width |-> bounds.width, height |-> bounds.height,
              offsetX |-> IF bounds.offsetX = <<>> THEN [n |-> 100 - bounds.width, d |-> 2]
                          ELSE [n |-> bounds.offsetX[1], d |-> 1],
              offsetY |-> IF bounds.offsetY = <<>> THEN [n |-> 100 - bounds.height, d |-> 2]
                          ELSE [n |-> bounds.offsetY[1], d |-> 1],
              jitter |-> IF bounds.jitter = <<>> THEN [n |-> 3, d |-> 20] ELSE bounds.jitter[1]]
      rng == mulberry32(Coalesce(bounds.seed, 2025), slt)
  IN IF rows = 0 \/ cols = 0 THEN [rng |-> rng, points |-> <<>>]
     ELSE MaskScan([rng |-> rng, points |-> <<>>], 0, maskResult, geo, density)

generateFlowerPositionsFromMask(maskResult, bounds, density, slt) ==
  ScanFromMask(maskResult, bounds, density, slt).points

\* ------------------------------------------------------------------------
\* lib/hiddenMessage.ts: assignSpeciesToPoints
\* ------------------------------------------------------------------------

DEFAULT_SPECIES == <<"forgetmenot", "lily", "peony", "rose", "tulip", "sunflower">>

SPECIES_PER_LETTER == 3

\* FallbackPool as it would be without the default list
FallbackPoolNoDefault(enabledSpecies) ==
  LET sanitizedFallback == Filter(enabledSpecies, Range(enabledSpecies) \ {"sunflower"})
  IN IF Len(sanitizedFallback) > 0 THEN sanitizedFallback ELSE enabledSpecies

\* FallbackPool as it would be if sunflower were left in the pool
FallbackPoolUnsanitized(enabledSpecies) ==
  IF Len(enabledSpecies) > 0 THEN enabledSpecies ELSE DEFAULT_SPECIES

\* basePool, sanitizedFallback and fallbackPool of assignSpeciesToPoints
FallbackPool(enabledSpecies) ==
  LET basePool == IF Len(enabledSpecies) > 0 THEN enabledSpecies ELSE DEFAULT_SPECIES
      sanitizedFallback == Filter(basePool, Range(basePool) \ {"sunflower"})
  IN IF Len(sanitizedFallback) > 0 THEN sanitizedFallback ELSE basePool

\* ActivePool as it would be if every letter took the palette of the first line
ActivePoolOfFirstLine(letterIndex, maskResult, enabledSpecies, lineSpecies) ==
  LET hasMeta == letterIndex >= 0 /\ letterIndex < Len(maskResult.letterMeta)
      Active(fallbackPool) ==
        LET OrFallback(filteredList) ==
              IF Len(filteredList) > 0 THEN filteredList ELSE fallbackPool
            Filtered(lineList) ==
              OrFallback(Filter(Filter(lineList, Range(lineList) \ {"sunflower"}),
                                Range(fallbackPool)))
        IN Filtered(IF hasMeta /\ 0 < Len(lineSpecies)
                    THEN lineSpecies[1] ELSE fallbackPool)
  IN Active(FallbackPool(enabledSpecies))

\* ActivePool as it would be without .filter((species) => fallbackPool.includes(species))
ActivePoolUnrestricted(letterIndex, maskResult, enabledSpecies, lineSpecies) ==
  LET hasMeta == letterIndex >= 0 /\ letterIndex < Len(maskResult.letterMeta)
      lineIndex == maskResult.letterMeta[letterIndex + 1].lineIndex
      Active(fallbackPool) ==
        LET OrFallback(filteredList) ==
              IF Len(filteredList) > 0 THEN filteredList ELSE fallbackPool
            Filtered(lineList) ==
              OrFallback(Filter(lineList, Range(lineList) \ {"sunflower"}))
        IN Filtered(IF hasMeta /\ lineIndex < Len(lineSpecies)
                    THEN lineSpecies[lineIndex + 1] ELSE fallbackPool)
  IN Active(FallbackPool(enabledSpecies))

\* lineList, filteredList and activePool of the point's letter
ActivePool(letterIndex, maskResult, enabledSpecies, lineSpecies) ==
  LET hasMeta == letterIndex >= 0 /\ letterIndex < Len(maskResult.letterMeta)
      lineIndex == maskResult.letterMeta[letterIndex + 1].lineIndex
      Active(fallbackPool) ==
        LET OrFallback(filteredList) ==
              IF Len(filteredList) > 0 THEN filteredList ELSE fallbackPool
            Filtered(lineList) ==
              OrFallback(Filter(Filter(lineList, Range(lineList) \ {"sunflower"}),
                                Range(fallbackPool)))
        IN Filtered(IF hasMeta /\ lineIndex < Len(lineSpecies)
                    THEN lineSpecies[lineIndex + 1] ELSE fallbackPool)
  IN Active(FallbackPool(enabledSpecies))

\* the species the callback of points.map gives the point at position idx
SpeciesOfPoint(points, idx, maskResult, enabledSpecies, lineSpecies) ==
  LET point == points[idx + 1]
      \* letterCounters: the earlier points of the same letter
      counter == Cardinality({j \in 1..idx : points[j].letterIndex = point.letterIndex})
      hasMeta == point.letterIndex >= 0 /\ point.letterIndex < Len(maskResult.letterMeta)
      \* letterStartIndex: set by the first point of the letter
      firstIdx == CHOOSE j \in 0..idx :
                    /\ points[j + 1].letterIndex = point.letterIndex
                    /\ \A i \in 0..(j - 1) : points[i + 1].letterIndex # point.letterIndex
      StartIndex(activePool) ==
        IF hasMeta
        THEN maskResult.letterMeta[point.letterIndex + 1].letterIndex % Len(activePool)
        ELSE firstIdx % Len(activePool)
      PerLetterPool(activePool, startIndex) ==
        IF Len(activePool) >= SPECIES_PER_LETTER
        THEN [i \in 1..SPECIES_PER_LETTER |->
                activePool[((startIndex + i - 1) % Len(activePool)) + 1]]
        ELSE activePool
      Pick(perLetterPool) == perLetterPool[(counter % Len(perLetterPool)) + 1]
      Assign(activePool) == Pick(PerLetterPool(activePool, StartIndex(activePool)))
  IN Assign(ActivePool(point.letterIndex, maskResult, enabledSpecies, lineSpecies))

assignSpeciesToPoints(points, maskResult, enabledSpecies, lineSpecies) ==
  IF Len(FallbackPool(enabledSpecies)) = 0 THEN points
  ELSE [k \in 1..Len(points) |->
          [points[k] EXCEPT !.species =
             SpeciesOfPoint(points, k - 1, maskResult, enabledSpecies, lineSpecies)]]

\* ------------------------------------------------------------------------
\* lib/flowers: FLOWER_SVGS.  The catalog is not among the files; it is a
\* flat list of variant identifiers "species-theme", held here as records
\* so that svg.split("-")[0] is the species field.
\* ------------------------------------------------------------------------

FLOWER_SVGS ==
  <<[species |-> "forgetmenot", theme |-> "earth"], [species |-> "forgetmenot", theme |-> "pastel"],
    [species |-> "lily", theme |-> "earth"], [species |-> "lily", theme |-> "pastel"],
    [species |-> "peony", theme |-> "earth"], [species |-> "peony", theme |-> "pastel"],
    [species |-> "rose", theme |-> "earth"], [species |-> "rose", theme |-> "pastel"],
    [species |-> "sunflower", theme |-> "earth"], [species |-> "sunflower", theme |-> "pastel"],
    [species |-> "tulip", theme |-> "earth"], [species |-> "tulip", theme |-> "pastel"]>>

\* ------------------------------------------------------------------------
\* lib/garden.ts
\* ------------------------------------------------------------------------

\* 64 and 56 in the program; the model's grid is smaller
COLS == 3

ROWS == 2

SEED == 20201027

totalCells == COLS * ROWS

\* buildSpeciesVariants()[species], or <<>> where the record has no such key
buildSpeciesVariants(species) ==
  LET Of(svgs) == Filter(svgs, {v \in Range(svgs) : v.species = species})
  IN Of(FLOWER_SVGS)

\* maskResult, spawnPoints, allSpecies and assignedPoints of one text set
AssignedPointsOf(ts, slt) ==
  LET Assigned(maskResult) ==
        assignSpeciesToPoints(
          generateFlowerPositionsFromMask(
            maskResult,
            [width |-> ts.bounds.width, height |-> ts.bounds.height,
             offsetX |-> ts.bounds.offsetX, offsetY |-> ts.bounds.offsetY,
             seed |-> <<ts.seed>>, jitter |-> <<ts.jitter>>],
            ts.density, slt),
          maskResult, Unique(Flat(ts.lineSpecies)), ts.lineSpecies)
  IN Assigned(buildTextMask(ts.lines, ts.maskOptions))

\* species, variants and svg of the callback of assignedPoints.forEach
VariantOf(point, index) ==
  LET Pick(variants) == variants[(index % Len(variants)) + 1]
      \* speciesVariants[species] ?? FLOWER_SVGS.filter((s) => s.startsWith("rose-"))
      OrRose(own) == IF own # <<>> THEN Pick(own) ELSE Pick(buildSpeciesVariants("rose"))
  IN OrRose(buildSpeciesVariants(IF point.species = NoSpecies THEN "rose" ELSE point.species))

\* SlotsOfTextSet as it would be with the first point planted a day late
SlotsOfTextSetDayLate(ts, slt) ==
  LET Slots(assignedPoints) ==
        [k \in 1..Len(assignedPoints) |->
           [dayIndex |-> ts.startDay + k,
            point |-> assignedPoints[k],
            textSetId |-> ts.id,
            svg |-> VariantOf(assignedPoints[k], k - 1)]]
  IN Slots(AssignedPointsOf(ts, slt))

\* the slots one text set pushes, in order: assignedPoints.forEach(...)
SlotsOfTextSet(ts, slt) ==
  LET Slots(assignedPoints) ==
        [k \in 1..Len(assignedPoints) |->
           [dayIndex |-> ts.startDay + (k - 1),
            point |-> assignedPoints[k],
            textSetId |-> ts.id,
            svg |-> VariantOf(assignedPoints[k], k - 1)]]
  IN Slots(AssignedPointsOf(ts, slt))

RECURSIVE InsertByDayTiesFirst(_, _)
\* InsertByDay as it would be if equal days were put before, not after
InsertByDayTiesFirst(sorted, x) ==
  IF sorted = <<>> THEN <<x>>
  ELSE IF sorted[Len(sorted)].dayIndex < x.dayIndex THEN Append(sorted, x)
  ELSE Append(InsertByDayTiesFirst(SubSeq(sorted, 1, Len(sorted) - 1), x), sorted[Len(sorted)])

RECURSIVE InsertByDay(_, _)
\* one step of a stable sort: x goes after every element whose dayIndex is
\* not larger than its own
InsertByDay(sorted, x) ==
  IF sorted = <<>> THEN <<x>>
  ELSE IF sorted[Len(sorted)].dayIndex <= x.dayIndex THEN Append(sorted, x)
  ELSE Append(InsertByDay(SubSeq(sorted, 1, Len(sorted) - 1), x), sorted[Len(sorted)])

RECURSIVE SortByDay(_, _)
\* slots.sort((a, b) => a.dayIndex - b.dayIndex): Array.prototype.sort is stable
SortByDay(slots, k) ==
  IF k = 0 THEN <<>> ELSE InsertByDay(SortByDay(slots, k - 1), slots[k])

RECURSIVE AllSlots(_, _, _)
\* for (const ts of textSets) { ... slots.push(...) }
AllSlots(textSets, k, slt) ==
  IF k > Len(textSets) THEN <<>>
  ELSE SlotsOfTextSet(textSets[k], slt) \o AllSlots(textSets, k + 1, slt)

precomputeTextFlowers(textSets, slt) ==
  LET Sorted(slots) == SortByDay(slots, Len(slots))
  IN Sorted(AllSlots(textSets, 1, slt))

\* textSlotMap after `for (const slot of textSlots) textSlotMap.set(...)`:
\* a later set of the same key replaces the earlier one
BuildTextSlotMap(textSlots) ==
  [day \in {textSlots[k].dayIndex : k \in 1..Len(textSlots)} |->
     textSlots[CHOOSE k \in 1..Len(textSlots) :
                 /\ textSlots[k].dayIndex = day
                 /\ \A j \in (k + 1)..Len(textSlots) : textSlots[j].dayIndex # day]]

\* the days of a month of the Gregorian calendar
DaysInMonth(y, m) ==
  IF m = 2 THEN (IF (y % 4 = 0 /\ y % 100 # 0) \/ y % 400 = 0 THEN 29 ELSE 28)
  ELSE IF m \in {4, 6, 9, 11} THEN 30 ELSE 31

RECURSIVE NormalizeDate(_, _, _)
\* Date.prototype.setDate with a day past the end of the month
NormalizeDate(y, m, d) ==
  IF d <= DaysInMonth(y, m) THEN [year |-> y, month |-> m, day |-> d]
  ELSE IF m = 12 THEN NormalizeDate(y + 1, 1, d - DaysInMonth(y, m))
  ELSE NormalizeDate(y, m + 1, d - DaysInMonth(y, m))

\* new Date("2017-10-27"), setDate(getDate() + i), toISOString().split("T")[0]
dateStr(i) == NormalizeDate(2017, 10, 27 + i)

\* TextFlower as it would be with zIndex = row, without the 200
TextFlowerUnlifted(i, textSlot) ==
  [id |-> i, x |-> textSlot.point.x, y |-> textSlot.point.y, svg |-> textSlot.svg,
   scale |-> [n |-> 105, d |-> 100], rotation |-> [n |-> 0, d |-> 1],
   zIndex |-> textSlot.point.row,
   dayNumber |-> i + 1, date |-> dateStr(i), textSetId |-> textSlot.textSetId]

\* the flower of the text branch of day i
TextFlower(i, textSlot) ==
  [id |-> i, x |-> textSlot.point.x, y |-> textSlot.point.y, svg |-> textSlot.svg,
   scale |-> [n |-> 105, d |-> 100], rotation |-> [n |-> 0, d |-> 1],
   zIndex |-> 200 + textSlot.point.row,
   dayNumber |-> i + 1, date |-> dateStr(i), textSetId |-> textSlot.textSetId]

\* the five draws of an ordinary day, in program order: x, y, svg, scale, rotation
Draws(rng) ==
  LET r1 == rngNext(rng)
      r2 == rngNext(r1)
      r3 == rngNext(r2)
      r4 == rngNext(r3)
      r5 == rngNext(r4)
  IN [x |-> rngVal(r1), y |-> rngVal(r2), svg |-> rngVal(r3), scale |-> rngVal(r4),
      rotation |-> rngVal(r5), rng |-> r5]

\* the textSetId of a flower that has none
NoTextSet == "undefined"

\* the fields every ordinary flower takes from the draws; x and y are over
\* COLS * RngMod and ROWS * RngMod hundredths
OrdinaryFlower(i, xNum, yNum, dr) ==
  [id |-> i,
   x |-> [n |-> xNum * 100, d |-> COLS * RngMod],
   y |-> [n |-> yNum * 100, d |-> ROWS * RngMod],
   svg |-> FLOWER_SVGS[((dr.svg * Len(FLOWER_SVGS)) \div RngMod) + 1],
   scale |-> [n |-> 8 * RngMod + dr.scale * 4, d |-> 10 * RngMod],
   rotation |-> [n |-> dr.rotation * 30 - 15 * RngMod, d |-> RngMod],
   zIndex |-> (yNum * 100) \div (ROWS * RngMod),
   dayNumber |-> i + 1, date |-> dateStr(i), textSetId |-> NoTextSet]

\* GridFlower as it would be with x = col * cellW + rng() * 100
GridFlowerWide(i, cellIndex, rng) ==
  LET col == cellIndex % COLS
      row == cellIndex \div COLS
      dr == Draws(rng)
  IN OrdinaryFlower(i, col * RngMod + dr.x * COLS, row * RngMod + dr.y, dr)

\* the flower of the grid branch: x = col * cellW + rng() * cellW, and y alike
GridFlower(i, cellIndex, rng) ==
  LET col == cellIndex % COLS
      row == cellIndex \div COLS
      dr == Draws(rng)
  IN OrdinaryFlower(i, col * RngMod + dr.x, row * RngMod + dr.y, dr)

\* the flower of the fallback branch: x = rng() * 100, y = rng() * 100
FallbackFlower(i, rng) ==
  LET dr == Draws(rng)
  IN OrdinaryFlower(i, dr.x * COLS, dr.y * ROWS, dr)

\* ------------------------------------------------------------------------
\* Inputs: the message configurations and day counts the calls are given
\* ------------------------------------------------------------------------

NoOptions == [charSpacing |-> <<>>, lineSpacing |-> <<>>, pixelScaleX |-> <<>>, pixelScaleY |-> <<>>]

TS_LOVE ==
  [id |-> "love", lines |-> << <<"L">> >>, startDay |-> 1,
   bounds |-> [width |-> 80, height |-> 80, offsetX |-> <<10>>, offsetY |-> <<10>>],
   density |-> [n |-> 1, d |-> 4], jitter |-> [n |-> 1, d |-> 10], seed |-> 1337,
   maskOptions |-> NoOptions,
   lineSpecies |-> << <<"peony", "lily", "forgetmenot", "rose">> >>]

TS_YOU ==
  [id |-> "you", lines |-> << <<"o">> >>, startDay |-> 2,
   bounds |-> [width |-> 60, height |-> 40, offsetX |-> <<>>, offsetY |-> <<>>],
   density |-> [n |-> 1, d |-> 8], jitter |-> [n |-> 1, d |-> 2], seed |-> 7,
   maskOptions |-> [charSpacing |-> <<1>>, lineSpacing |-> <<4>>,
                    pixelScaleX |-> <<1>>, pixelScaleY |-> <<1>>],
   lineSpecies |-> << <<"sunflower", "daisy", "tulip">> >>]

TS_EMPTY ==
  [id |-> "empty", lines |-> <<>>, startDay |-> 0,
   bounds |-> [width |-> 80, height |-> 80, offsetX |-> <<10>>, offsetY |-> <<10>>],
   density |-> [n |-> 1, d |-> 1], jitter |-> [n |-> 0, d |-> 1], seed |-> 1,
   maskOptions |-> NoOptions,
   lineSpecies |-> <<>>]

TS_EARLY ==
  [id |-> "early", lines |-> << <<"Y">> >>, startDay |-> -1,
   bounds |-> [width |-> 100, height |-> 100, offsetX |-> <<0>>, offsetY |-> <<0>>],
   density |-> [n |-> 1, d |-> 4], jitter |-> [n |-> 1, d |-> 1], seed |-> 2,
   maskOptions |-> NoOptions,
   lineSpecies |-> << <<"sunflower">> >>]

TextSetLists ==
  { <<>>, <<TS_LOVE>>, <<TS_YOU>>, <<TS_LOVE, TS_YOU>>, <<TS_YOU, TS_LOVE>>,
    <<TS_EMPTY>>, <<TS_EARLY>>, <<TS_EMPTY, TS_EARLY, TS_LOVE>> }

Counts == -1..MaxCount

Salts == 0..(RngMod - 1)

\* ------------------------------------------------------------------------
\* State: the calls of generateGarden, each with its own locals
\* ------------------------------------------------------------------------

CallIds == {1, 2}

VARIABLES
  salt,   \* the phase of the generator, fixed for the run
  calls,  \* calls[c]: the locals of call c and where it stands
  pipe,   \* a caller of the helpers of hiddenMessage.ts and what it holds
  audio   \* the component that uses useAmbientAudio, its refs and the browser's frames

vars == <<salt, calls, pipe, audio>>

IdleCall ==
  [pc |-> "idle", count |-> 0, textSets |-> <<>>, rng |-> mulberry32(SEED, 0),
   indices |-> <<>>, si |-> 0, textSlotMap |-> <<>>, flowers |-> <<>>,
   i |-> 0, gridCellUsed |-> 0, origin |-> <<>>]

\* the caller of the helpers before its first call
IdlePipe ==
  [pc |-> "idle", lines |-> <<>>, options |-> NoOptions, maskResult |-> <<>>,
   bounds |-> <<>>, density |-> <<>>, points |-> <<>>, rng |-> <<>>,
   enabledSpecies |-> <<>>, lineSpecies |-> <<>>, assigned |-> <<>>, svgs |-> <<>>]

\* useAmbientAudio before the component is mounted: no audio element, no
\* frame requested, timeOfDay at its first value
IdleAudio ==
  [mounted |-> FALSE, timeOfDay |-> "day", volume |-> [day |-> 0, night |-> 0],
   fadeRaf |-> 0, fadeState |-> <<>>, pending |-> {}, fades |-> 0]

Init ==
  /\ salt \in Salts
  /\ calls = [c \in CallIds |-> IdleCall]
  /\ pipe = IdlePipe
  /\ audio = IdleAudio

\* Invoke as it would be if the shuffle ran over the first `count` cells only
InvokeShuffleCount(c) ==
  /\ calls[c].pc = "idle"
  /\ \E count \in Counts, textSets \in TextSetLists :
       calls' = [calls EXCEPT ![c] =
                   [IdleCall EXCEPT !.pc = "shuffle", !.count = count, !.textSets = textSets,
                                    !.rng = mulberry32(SEED, salt),
                                    !.indices = [k \in 1..totalCells |-> k - 1],
                                    !.si = Min2(count, totalCells) - 1]]
  /\ UNCHANGED <<salt, pipe, audio>>

\* Invoke as it would be if rng were a module-level stream that a later call
\* goes on drawing from
InvokeSharedRng(c) ==
  /\ calls[c].pc = "idle"
  /\ \E count \in Counts, textSets \in TextSetLists :
       calls' = [calls EXCEPT ![c] =
                   [IdleCall EXCEPT !.pc = "shuffle", !.count = count, !.textSets = textSets,
                                    !.rng = IF \E o \in CallIds : calls[o].pc = "done"
                                            THEN calls[CHOOSE o \in CallIds : calls[o].pc = "done"].rng
                                            ELSE mulberry32(SEED, salt),
                                    !.indices = [k \in 1..totalCells |-> k - 1],
                                    !.si = totalCells - 1]]
  /\ UNCHANGED <<salt, pipe, audio>>

\* generateGarden(count, textSets) is entered: rng, totalCells, indices
Invoke(c) ==
  /\ calls[c].pc = "idle"
  /\ \E count \in Counts, textSets \in TextSetLists :
       calls' = [calls EXCEPT ![c] =
                   [IdleCall EXCEPT !.pc = "shuffle", !.count = count, !.textSets = textSets,
                                    !.rng = mulberry32(SEED, salt),
                                    !.indices = [k \in 1..totalCells |-> k - 1],
                                    !.si = totalCells - 1]]
  /\ UNCHANGED <<salt, pipe, audio>>

\* ShuffleSwap as it would be with the second half of the swap forgotten
ShuffleSwapOneSided(indices, i, r) ==
  LET j == (rngVal(r) * (i + 1)) \div RngMod
  IN [indices EXCEPT ![i + 1] = indices[j + 1]]

\* indices after one iteration of the Fisher-Yates loop at index i, with the
\* stream already advanced to r
ShuffleSwap(indices, i, r) ==
  LET j == (rngVal(r) * (i + 1)) \div RngMod
  IN [indices EXCEPT ![i + 1] = indices[j + 1], ![j + 1] = indices[i + 1]]

\* one iteration of for (let i = indices.length - 1; i > 0; i--)
ShuffleStep(c) ==
  /\ calls[c].pc = "shuffle"
  /\ calls[c].si > 0
  /\ LET r == rngNext(calls[c].rng)
     IN calls' = [calls EXCEPT ![c].rng = r,
                               ![c].indices = ShuffleSwap(calls[c].indices, calls[c].si, r),
                               ![c].si = calls[c].si - 1]
  /\ UNCHANGED <<salt, pipe, audio>>

\* the shuffle loop ends; speciesVariants, textSlots, textSlotMap; the locals
\* of the day loop
Precompute(c) ==
  /\ calls[c].pc = "shuffle"
  /\ calls[c].si <= 0
  /\ calls' = [calls EXCEPT
                 ![c].pc = "loop",
                 ![c].textSlotMap = BuildTextSlotMap(precomputeTextFlowers(calls[c].textSets, salt)),
                 ![c].flowers = <<>>, ![c].i = 0, ![c].gridCellUsed = 0]
  /\ UNCHANGED <<salt, pipe, audio>>

\* TextDay as it would be if the loop ran while i <= count
TextDayInclusive(c) ==
  LET cl == calls[c]
  IN /\ cl.pc = "loop"
     /\ cl.i <= cl.count
     /\ cl.i \in DOMAIN cl.textSlotMap
     /\ calls' = [calls EXCEPT
                    ![c].flowers = Append(cl.flowers, TextFlower(cl.i, cl.textSlotMap[cl.i])),
                    ![c].origin = Append(cl.origin, [kind |-> "text", cell |-> -1]),
                    ![c].i = cl.i + 1]
     /\ UNCHANGED <<salt, pipe, audio>>

\* TextDay as it would be if a message day took a value of the call's stream
TextDayDrawing(c) ==
  LET cl == calls[c]
  IN /\ cl.pc = "loop"
     /\ cl.i < cl.count
     /\ cl.i \in DOMAIN cl.textSlotMap
     /\ calls' = [calls EXCEPT
                    ![c].flowers = Append(cl.flowers, TextFlower(cl.i, cl.textSlotMap[cl.i])),
                    ![c].origin = Append(cl.origin, [kind |-> "text", cell |-> -1]),
                    ![c].rng = rngNext(cl.rng),
                    ![c].i = cl.i + 1]
     /\ UNCHANGED <<salt, pipe, audio>>

\* day i has a text slot
TextDay(c) ==
  LET cl == calls[c]
  IN /\ cl.pc = "loop"
     /\ cl.i < cl.count
     /\ cl.i \in DOMAIN cl.textSlotMap
     /\ calls' = [calls EXCEPT
                    ![c].flowers = Append(cl.flowers, TextFlower(cl.i, cl.textSlotMap[cl.i])),
                    ![c].origin = Append(cl.origin, [kind |-> "text", cell |-> -1]),
                    ![c].i = cl.i + 1]
     /\ UNCHANGED <<salt, pipe, audio>>

\* GridDay as it would be if the cell were looked up by the day, not the cursor
GridDayByDay(c) ==
  LET cl == calls[c]
  IN /\ cl.pc = "loop"
     /\ cl.i < cl.count
     /\ cl.i \notin DOMAIN cl.textSlotMap
     /\ cl.gridCellUsed < totalCells
     /\ LET cellIndex == cl.indices[(cl.i % totalCells) + 1]
        IN calls' = [calls EXCEPT
                       ![c].flowers = Append(cl.flowers, GridFlower(cl.i, cellIndex, cl.rng)),
                       ![c].origin = Append(cl.origin, [kind |-> "grid", cell |-> cellIndex]),
                       ![c].rng = Draws(cl.rng).rng,
                       ![c].gridCellUsed = cl.gridCellUsed + 1,
                       ![c].i = cl.i + 1]
     /\ UNCHANGED <<salt, pipe, audio>>

\* GridDay as it would be if gridCellUsed were one module-level cursor (held
\* here in the first call)
GridDaySharedCursor(c) ==
  LET cl == calls[c]
  IN /\ cl.pc = "loop"
     /\ cl.i < cl.count
     /\ cl.i \notin DOMAIN cl.textSlotMap
     /\ calls[1].gridCellUsed < totalCells
     /\ LET cellIndex == cl.indices[calls[1].gridCellUsed + 1]
        IN calls' = [calls EXCEPT
                       ![c].flowers = Append(cl.flowers, GridFlower(cl.i, cellIndex, cl.rng)),
                       ![c].origin = Append(cl.origin, [kind |-> "grid", cell |-> cellIndex]),
                       ![c].rng = Draws(cl.rng).rng,
                       ![c].i = cl.i + 1,
                       ![1].gridCellUsed = calls[1].gridCellUsed + 1]
     /\ UNCHANGED <<salt, pipe, audio>>

\* day i has no text slot and a grid cell is left
GridDay(c) ==
  LET cl == calls[c]
  IN /\ cl.pc = "loop"
     /\ cl.i < cl.count
     /\ cl.i \notin DOMAIN cl.textSlotMap
     /\ cl.gridCellUsed < totalCells
     /\ LET cellIndex == cl.indices[cl.gridCellUsed + 1]
        IN calls' = [calls EXCEPT
                       ![c].flowers = Append(cl.flowers, GridFlower(cl.i, cellIndex, cl.rng)),
                       ![c].origin = Append(cl.origin, [kind |-> "grid", cell |-> cellIndex]),
                       ![c].rng = Draws(cl.rng).rng,
                       ![c].gridCellUsed = cl.gridCellUsed + 1,
                       ![c].i = cl.i + 1]
     /\ UNCHANGED <<salt, pipe, audio>>

\* FallbackDay as it would be if the loop ended once the grid is full
FallbackDayStops(c) ==
  LET cl == calls[c]
  IN /\ cl.pc = "loop"
     /\ cl.i < cl.count
     /\ cl.i \notin DOMAIN cl.textSlotMap
     /\ cl.gridCellUsed >= totalCells
     /\ calls' = [calls EXCEPT ![c].i = cl.count]
     /\ UNCHANGED <<salt, pipe, audio>>

\* FallbackDay as it would be if the grid counted as full one cell early
FallbackDayEarly(c) ==
  LET cl == calls[c]
  IN /\ cl.pc = "loop"
     /\ cl.i < cl.count
     /\ cl.i \notin DOMAIN cl.textSlotMap
     /\ cl.gridCellUsed >= totalCells - 1
     /\ calls' = [calls EXCEPT
                    ![c].flowers = Append(cl.flowers, FallbackFlower(cl.i, cl.rng)),
                    ![c].origin = Append(cl.origin, [kind |-> "fallback", cell |-> -1]),
                    ![c].rng = Draws(cl.rng).rng,
                    ![c].i = cl.i + 1]
     /\ UNCHANGED <<salt, pipe, audio>>

\* day i has no text slot and the grid is full
FallbackDay(c) ==
  LET cl == calls[c]
  IN /\ cl.pc = "loop"
     /\ cl.i < cl.count
     /\ cl.i \notin DOMAIN cl.textSlotMap
     /\ cl.gridCellUsed >= totalCells
     /\ calls' = [calls EXCEPT
                    ![c].flowers = Append(cl.flowers, FallbackFlower(cl.i, cl.rng)),
                    ![c].origin = Append(cl.origin, [kind |-> "fallback", cell |-> -1]),
                    ![c].rng = Draws(cl.rng).rng,
                    ![c].i = cl.i + 1]
     /\ UNCHANGED <<salt, pipe, audio>>

\* the day loop ends: return flowers
Return(c) ==
  /\ calls[c].pc = "loop"
  /\ calls[c].i >= calls[c].count
  /\ calls' = [calls EXCEPT ![c].pc = "done"]
  /\ UNCHANGED <<salt, pipe, audio>>

Step(c) ==
  \/ Invoke(c)
  \/ ShuffleStep(c)
  \/ Precompute(c)
  \/ TextDay(c)
  \/ GridDay(c)
  \/ FallbackDay(c)
  \/ Return(c)

\* one request: the page calls generateGarden once
Next == Step(1)

Spec == Init /\ [][Next]_vars

\* two requests, one after the other: JavaScript runs each call to its end
NextPair ==
  \/ Step(1)
  \/ (calls[1].pc = "done" /\ Step(2))

InitPair ==
  /\ salt \in {slt \in Salts : slt % 4 = 3}
  /\ calls = [c \in CallIds |-> IdleCall]
  /\ pipe = IdlePipe
  /\ audio = IdleAudio

SpecPair == InitPair /\ [][NextPair]_vars

\* several requests at once: the steps of the calls interleave in any order
NextConc == Step(1) \/ Step(2)

ConcSalts == {11}

InitConc ==
  /\ salt \in ConcSalts
  /\ calls = [c \in CallIds |-> IdleCall]
  /\ pipe = IdlePipe
  /\ audio = IdleAudio

SpecConc == InitConc /\ [][NextConc]_vars

RECURSIVE ShuffleFrom(_, _)
\* the Fisher-Yates loop from index i down to 1, run without a break
ShuffleFrom(sh, i) ==
  IF i <= 0 THEN sh
  ELSE LET Swapped(r) == [rng |-> r, indices |-> ShuffleSwap(sh.indices, i, r)]
       IN ShuffleFrom(Swapped(rngNext(sh.rng)), i - 1)

RECURSIVE DaysFrom(_, _, _, _, _)
\* the day loop from day i on, run without a break
DaysFrom(acc, i, count, indices, textSlotMap) ==
  IF i >= count THEN acc
  ELSE IF i \in DOMAIN textSlotMap
    THEN DaysFrom([acc EXCEPT !.flowers = Append(@, TextFlower(i, textSlotMap[i]))],
                  i + 1, count, indices, textSlotMap)
  ELSE IF acc.gridCellUsed < totalCells
    THEN DaysFrom([flowers |-> Append(acc.flowers,
                                      GridFlower(i, indices[acc.gridCellUsed + 1], acc.rng)),
                   rng |-> Draws(acc.rng).rng,
                   gridCellUsed |-> acc.gridCellUsed + 1],
                  i + 1, count, indices, textSlotMap)
  ELSE DaysFrom([flowers |-> Append(acc.flowers, FallbackFlower(i, acc.rng)),
                 rng |-> Draws(acc.rng).rng,
                 gridCellUsed |-> acc.gridCellUsed],
                i + 1, count, indices, textSlotMap)

\* generateGarden(count, textSets) run alone, from entry to return
generateGarden(count, textSets, slt) ==
  LET Days(sh) ==
        DaysFrom([flowers |-> <<>>, rng |-> sh.rng, gridCellUsed |-> 0], 0, count,
                 sh.indices, BuildTextSlotMap(precomputeTextFlowers(textSets, slt)))
  IN Days(ShuffleFrom([rng |-> mulberry32(SEED, slt),
                       indices |-> [k \in 1..totalCells |-> k - 1]],
                      totalCells - 1)).flowers

\* ------------------------------------------------------------------------
\* The helpers of hiddenMessage.ts called one after the other on inputs of
\* the caller's choice, as precomputeTextFlowers and the page's species
\* filter call them
\* ------------------------------------------------------------------------

PipeLines ==
  { <<>>,
    << <<>> >>,
    << <<" ">> >>,
    << <<"A">> >>,
    << <<"y">> >>,
    << <<" ", "H">> >>,
    << <<"l", "Z", "O">> >>,
    << <<"L", " ", "U">>, <<"Y">> >> }

PipeOptions ==
  { NoOptions,
    [charSpacing |-> <<1>>, lineSpacing |-> <<0>>, pixelScaleX |-> <<2>>, pixelScaleY |-> <<1>>],
    [charSpacing |-> <<0>>, lineSpacing |-> <<1>>, pixelScaleX |-> <<0>>, pixelScaleY |-> <<2>>] }

PipeBounds ==
  { [width |-> 80, height |-> 80, offsetX |-> <<10>>, offsetY |-> <<10>>,
     seed |-> <<1337>>, jitter |-> <<[n |-> 1, d |-> 10]>>],
    [width |-> 60, height |-> 40, offsetX |-> <<>>, offsetY |-> <<>>,
     seed |-> <<>>, jitter |-> <<>>],
    [width |-> 100, height |-> 50, offsetX |-> <<0>>, offsetY |-> <<>>,
     seed |-> <<7>>, jitter |-> <<[n |-> 1, d |-> 1]>>] }

PipeDensities ==
  { [n |-> -1, d |-> 2], [n |-> 0, d |-> 1], [n |-> 1, d |-> 2], [n |-> 1, d |-> 1],
    [n |-> 5, d |-> 2] }

PipeEnabled ==
  { <<>>,
    <<"sunflower">>,
    <<"sunflower", "rose">>,
    <<"lily", "rose">>,
    <<"rose", "lily", "tulip", "peony", "sunflower">>,
    <<"rose", "rose", "rose", "lily", "tulip">> }

PipePalettes ==
  { <<>>,
    << <<>> >>,
    << <<"sunflower">> >>,
    << <<"peony", "lily", "sunflower", "rose">>, <<"tulip", "daisy">> >>,
    << <<"rose", "rose", "rose", "lily", "tulip">> >> }

PipeSalts == {0, 5}

\* buildTextMask(lines, options)
BuildMask ==
  /\ pipe.pc = "idle"
  /\ \E lines \in PipeLines, options \in PipeOptions :
       pipe' = [pipe EXCEPT !.pc = "masked", !.lines = lines, !.options = options,
                            !.maskResult = buildTextMask(lines, options)]
  /\ UNCHANGED <<salt, calls, audio>>

\* generateFlowerPositionsFromMask(maskResult, bounds, density)
Spawn ==
  /\ pipe.pc = "masked"
  /\ \E bounds \in PipeBounds, density \in PipeDensities :
       \* points is what the call returns; rng is the call's stream as it leaves it
       LET Returned(scan) ==
             [pipe EXCEPT !.pc = "spawned", !.bounds = bounds, !.density = density,
                          !.points = scan.points, !.rng = scan.rng]
       IN pipe' = Returned(ScanFromMask(pipe.maskResult, bounds, density, salt))
  /\ UNCHANGED <<salt, calls, audio>>

\* assignSpeciesToPoints(points, maskResult, enabledSpecies, lineSpecies)
Assign ==
  /\ pipe.pc = "spawned"
  /\ \E enabledSpecies \in PipeEnabled, lineSpecies \in PipePalettes :
       pipe' = [pipe EXCEPT !.pc = "assigned",
                            !.enabledSpecies = enabledSpecies,
                            !.lineSpecies = lineSpecies,
                            !.assigned = assignSpeciesToPoints(
                                           pipe.points, pipe.maskResult,
                                           enabledSpecies, lineSpecies)]
  /\ UNCHANGED <<salt, calls, audio>>

\* assignedPoints.forEach((point, index) => ...): the variant of each point
Place ==
  /\ pipe.pc = "assigned"
  /\ pipe' = [pipe EXCEPT !.pc = "placed",
                          !.svgs = [k \in 1..Len(pipe.assigned) |->
                                      VariantOf(pipe.assigned[k], k - 1)]]
  /\ UNCHANGED <<salt, calls, audio>>

NextPipe == BuildMask \/ Spawn \/ Assign \/ Place

InitPipe ==
  /\ salt \in PipeSalts
  /\ calls = [c \in CallIds |-> IdleCall]
  /\ pipe = IdlePipe
  /\ audio = IdleAudio

SpecPipe == InitPipe /\ [][NextPipe]_vars

\* ------------------------------------------------------------------------
\* lib/useAmbientAudio.ts.  A volume is a whole number of VolumeUnit-th parts
\* of a hundredth, so that every value a fade passes through is exact; time
\* is counted in quarters of FADE_DURATION.  audio.fadeRaf is 0 for null;
\* audio.pending is the set of frame callbacks the browser still holds.
\* ------------------------------------------------------------------------

\* the fades one mounted component starts at most
MaxFades == 3

\* the quarters of FADE_DURATION that pass between two frames, at most
MaxDt == 2

\* 2200 ms, in quarters of itself
FADE_DURATION == 4

RECURSIVE Pow(_, _)
Pow(b, e) == IF e = 0 THEN 1 ELSE b * Pow(b, e - 1)

\* the parts a hundredth of volume is divided in
VolumeUnit == Pow(FADE_DURATION * FADE_DURATION, MaxFades)

TimesOfDay == {"night", "dawn", "morning", "day", "sunset", "dusk"}

NIGHT_SCENES == {"night", "dusk", "dawn"}

\* scene of useAmbientAudio
SceneOf(timeOfDay) == IF timeOfDay \in NIGHT_SCENES THEN "night" ELSE "day"

\* SCENE_AUDIO[scene].maxVolume: 0.4 and 0.38
SCENE_AUDIO ==
  [day |-> [maxVolume |-> 40 * VolumeUnit], night |-> [maxVolume |-> 38 * VolumeUnit]]

\* targetVolumes of the effect on [scene]
TargetVolumes(scene) ==
  [[day |-> 0, night |-> 0] EXCEPT ![scene] = SCENE_AUDIO[scene].maxVolume]

\* easeInOut(t) for t = e / FADE_DURATION, as a numerator over FADE_DURATION^2
easeInOut(e) ==
  IF 2 * e < FADE_DURATION THEN 2 * e * e
  ELSE 4 * e * FADE_DURATION - 2 * e * e - FADE_DURATION * FADE_DURATION

\* the handles requestAnimationFrame can return; a new handle is one the
\* browser does not hold and the component does not remember
RafIds == 1..(MaxFades + 3)

requestAnimationFrame(held) == CHOOSE id \in RafIds : id \notin held /\ \A j \in RafIds \ held : id <= j

\* startFade as it would be without cancelAnimationFrame
startFadeNoCancel(a, targets) ==
  IF ~a.mounted THEN a
  ELSE LET Requested(id) ==
             [a EXCEPT !.fadeState = <<[elapsed |-> 0, from |-> a.volume, to |-> targets]>>,
                       !.pending = a.pending \cup {id},
                       !.fadeRaf = id]
       IN Requested(requestAnimationFrame(a.pending \cup {a.fadeRaf}))

\* startFade(targets), for the component in state a
startFade(a, targets) ==
  IF ~a.mounted THEN a
  ELSE LET Requested(id) ==
             [a EXCEPT !.fadeState = <<[elapsed |-> 0, from |-> a.volume, to |-> targets]>>,
                       !.pending = (a.pending \ {a.fadeRaf}) \cup {id},
                       !.fadeRaf = id]
       IN Requested(requestAnimationFrame(a.pending \cup {a.fadeRaf}))

\* the component mounts: the first effect creates the two audio elements at
\* volume 0, the second starts the fade to the first scene
Mount ==
  /\ ~audio.mounted
  /\ audio' = startFade([IdleAudio EXCEPT !.mounted = TRUE, !.pending = audio.pending,
                                          !.fades = 1],
                        TargetVolumes(SceneOf(IdleAudio.timeOfDay)))
  /\ UNCHANGED <<salt, calls, pipe>>

\* the component is rendered with another timeOfDay; the effect on [scene]
\* runs when the scene is another one
SetTimeOfDay ==
  /\ audio.mounted
  /\ \E timeOfDay \in TimesOfDay \ {audio.timeOfDay} :
       IF SceneOf(timeOfDay) = SceneOf(audio.timeOfDay)
       THEN audio' = [audio EXCEPT !.timeOfDay = timeOfDay]
       ELSE /\ audio.fades < MaxFades
            /\ audio' = startFade([audio EXCEPT !.timeOfDay = timeOfDay,
                                                !.fades = audio.fades + 1],
                                  TargetVolumes(SceneOf(timeOfDay)))
  /\ UNCHANGED <<salt, calls, pipe>>

\* step of startFade, run by the browser for handle id, dt after the frame
\* or the startFade before it
step(a, id, dt) ==
  IF a.fadeState = <<>> THEN [a EXCEPT !.pending = a.pending \ {id}]
  ELSE LET state == a.fadeState[1]
           elapsed == Min2(FADE_DURATION, state.elapsed + dt)
           Faded(key) ==
             state.from[key]
               + ((state.to[key] - state.from[key]) * easeInOut(elapsed))
                   \div (FADE_DURATION * FADE_DURATION)
           Stepped(held) ==
             [a EXCEPT !.fadeState = <<[state EXCEPT !.elapsed = elapsed]>>,
                       !.volume = IF a.mounted THEN [day |-> Faded("day"), night |-> Faded("night")]
                                  ELSE a.volume,
                       !.pending = IF elapsed < FADE_DURATION
                                   THEN held \cup {requestAnimationFrame(a.pending \cup {a.fadeRaf})}
                                   ELSE held,
                       !.fadeRaf = IF elapsed < FADE_DURATION
                                   THEN requestAnimationFrame(a.pending \cup {a.fadeRaf})
                                   ELSE a.fadeRaf]
       IN Stepped(a.pending \ {id})

\* an animation frame fires: the browser runs a callback it holds
Frame ==
  /\ \E id \in audio.pending, dt \in 1..MaxDt : audio' = step(audio, id, dt)
  /\ UNCHANGED <<salt, calls, pipe>>

\* the component unmounts: the cleanup of the first effect
Unmount ==
  /\ audio.mounted
  /\ audio' = [audio EXCEPT !.mounted = FALSE,
                            !.pending = audio.pending \ {audio.fadeRaf},
                            !.fadeRaf = 0]
  /\ UNCHANGED <<salt, calls, pipe>>

NextAudio == Mount \/ SetTimeOfDay \/ Frame \/ Unmount

InitAudio ==
  /\ salt = 0
  /\ calls = [c \in CallIds |-> IdleCall]
  /\ pipe = IdlePipe
  /\ audio = IdleAudio

\* animation frames keep firing
SpecAudio == InitAudio /\ [][NextAudio]_vars /\ WF_vars(Frame)

\* ------------------------------------------------------------------------
\* Properties
\* ------------------------------------------------------------------------

Done(c) == calls[c].pc = "done"

\* the flowers of call c that the text branch made, and the ordinary ones
TextIds(c) == {k \in 1..Len(calls[c].flowers) : calls[c].origin[k].kind = "text"}

GridIds(c) == {k \in 1..Len(calls[c].flowers) : calls[c].origin[k].kind = "grid"}

FallbackIds(c) == {k \in 1..Len(calls[c].flowers) : calls[c].origin[k].kind = "fallback"}

\* C1. Prefix stability: when two finished calls were given the same message
\* configs and counts n >= 0 and n + 1, the n flowers of the first are the
\* first n flowers of the second, every field equal.
C1_PrefixStability ==
  \A c1, c2 \in CallIds :
    (/\ Done(c1) /\ Done(c2)
     /\ calls[c1].textSets = calls[c2].textSets
     /\ calls[c1].count >= 0
     /\ calls[c2].count = calls[c1].count + 1)
    => /\ Len(calls[c2].flowers) = Len(calls[c1].flowers) + 1
       /\ \A k \in 1..Len(calls[c1].flowers) : calls[c1].flowers[k] = calls[c2].flowers[k]

\* C1 witness: generateGarden(n) and generateGarden(n + 1) both returned, with
\* text, grid and fallback flowers among the first n
C1_Witness ==
  /\ Done(1) /\ Done(2)
  /\ calls[1].textSets = calls[2].textSets
  /\ calls[2].count = calls[1].count + 1
  /\ TextIds(1) # {} /\ GridIds(1) # {} /\ FallbackIds(1) # {}

\* C2. Determinism: two finished calls that were given the same count and the
\* same message configs return the same list.
C2_Determinism ==
  \A c1, c2 \in CallIds :
    (/\ Done(c1) /\ Done(c2)
     /\ calls[c1].textSets = calls[c2].textSets
     /\ calls[c1].count = calls[c2].count)
    => calls[c1].flowers = calls[c2].flowers

\* C2 witness: two calls with equal inputs returned text, grid and fallback flowers
C2_Witness ==
  /\ Done(1) /\ Done(2)
  /\ calls[1].textSets = calls[2].textSets
  /\ calls[1].count = calls[2].count
  /\ TextIds(2) # {} /\ GridIds(2) # {} /\ FallbackIds(2) # {}

\* C3. Id density: a call given count >= 0 returns exactly count flowers and
\* the flower at list position i has id i; while the loop runs the ids of the
\* flowers pushed so far are 0 .. i-1.
C3_IdDensity ==
  \A c \in CallIds :
    /\ \A k \in 1..Len(calls[c].flowers) : calls[c].flowers[k].id = k - 1
    /\ calls[c].pc = "loop" => Len(calls[c].flowers) = calls[c].i
    /\ (Done(c) /\ calls[c].count >= 0) => Len(calls[c].flowers) = calls[c].count

\* C3 witness: a finished call with more days than grid cells and text days in between
C3_Witness ==
  /\ Done(1)
  /\ calls[1].count > totalCells
  /\ TextIds(1) # {} /\ FallbackIds(1) # {}
  /\ \E k \in TextIds(1) : k > 1 /\ k < Len(calls[1].flowers)

\* the grid cell a flower lies in, from its position
CellOfFlower(f) ==
  ((f.y.n * ROWS) \div (f.y.d * 100)) * COLS + ((f.x.n * COLS) \div (f.x.d * 100))

\* C4. No grid collision: indices is a permutation of 0 .. COLS*ROWS-1 at
\* every step of the shuffle and after it, the cursor counts the grid
\* flowers, and no two grid flowers come from, or lie in, the same cell.
C4_NoGridCollision ==
  \A c \in CallIds :
    calls[c].pc # "idle" =>
      /\ Len(calls[c].indices) = totalCells
      /\ Range(calls[c].indices) = 0..(totalCells - 1)
      /\ calls[c].gridCellUsed = Cardinality(GridIds(c))
      /\ calls[c].gridCellUsed <= totalCells
      /\ \A k1, k2 \in GridIds(c) :
           k1 # k2 => /\ calls[c].origin[k1].cell # calls[c].origin[k2].cell
                      /\ CellOfFlower(calls[c].flowers[k1]) # CellOfFlower(calls[c].flowers[k2])
      /\ \A k \in GridIds(c) : CellOfFlower(calls[c].flowers[k]) = calls[c].origin[k].cell

\* C4 witness: every grid cell has been consumed
C4_Witness ==
  /\ Done(1)
  /\ calls[1].gridCellUsed = totalCells
  /\ Cardinality(GridIds(1)) = totalCells

\* the assigned points of every config the calls can be given, per salt,
\* computed once
PointsTable ==
  [slt \in Salts |->
     [ts \in UNION {Range(l) : l \in TextSetLists} |-> AssignedPointsOf(ts, slt)]]

\* the assigned points of config ts in this run
PointsOf(ts) == PointsTable[salt][ts]

\* the days config number t of call c schedules: startDay + 0 .. startDay + m-1
DaysOf(c, t) ==
  LET ts == calls[c].textSets[t]
  IN {ts.startDay + k : k \in 0..(Len(PointsOf(ts)) - 1)}

\* the configs of call c that schedule a point on day d
Schedulers(c, d) == {t \in 1..Len(calls[c].textSets) : d \in DaysOf(c, t)}

\* config t of call c shares no day with another config of the call
NoCollision(c, t) ==
  \A u \in 1..Len(calls[c].textSets) : u # t => DaysOf(c, t) \cap DaysOf(c, u) = {}

\* flower f is the k-th (from 0) assigned point of config ts, planted on day s + k
IsPointOf(f, ts, k) ==
  LET point == PointsOf(ts)[k + 1]
  IN /\ f.id = ts.startDay + k
     /\ f.x = point.x /\ f.y = point.y
     /\ f.textSetId = ts.id

\* every flower that carries a textSetId lies on a day some config scheduled
TaggedOnlyIfScheduled(c) ==
  \A j \in 1..Len(calls[c].flowers) :
    calls[c].flowers[j].textSetId # NoTextSet =>
      \E t \in Schedulers(c, j - 1) : calls[c].textSets[t].id = calls[c].flowers[j].textSetId

\* C5, as claimed. Message scheduling and tagging: for count >= s + m and no
\* colliding config there is, for every k < m, a flower with id s + k that
\* carries the k-th assigned point and the config's id; and a flower carries a
\* textSetId only if a config scheduled its day.
C5_SchedulingAsClaimed ==
  \A c \in CallIds : Done(c) =>
    /\ \A t \in 1..Len(calls[c].textSets) :
         LET ts == calls[c].textSets[t]
             m == Len(PointsOf(ts))
         IN (calls[c].count >= ts.startDay + m /\ NoCollision(c, t)) =>
              \A k \in 0..(m - 1) :
                /\ ts.startDay + k + 1 \in 1..Len(calls[c].flowers)
                /\ IsPointOf(calls[c].flowers[ts.startDay + k + 1], ts, k)
    /\ TaggedOnlyIfScheduled(c)

\* C5, amended. The same for every k < m whose day s + k is not negative; a
\* point whose day is negative has no flower.
C5_Scheduling ==
  \A c \in CallIds : Done(c) =>
    /\ \A t \in 1..Len(calls[c].textSets) :
         LET ts == calls[c].textSets[t]
             m == Len(PointsOf(ts))
         IN (calls[c].count >= ts.startDay + m /\ NoCollision(c, t)) =>
              \A k \in 0..(m - 1) :
                IF ts.startDay + k >= 0
                THEN /\ ts.startDay + k + 1 \in 1..Len(calls[c].flowers)
                     /\ IsPointOf(calls[c].flowers[ts.startDay + k + 1], ts, k)
                ELSE \A j \in 1..Len(calls[c].flowers) : calls[c].flowers[j].id # ts.startDay + k
    /\ TaggedOnlyIfScheduled(c)

\* C5 witness: a finished call with a config of two or more points, none on a
\* colliding day, all planted, next to a config that starts before day 0
C5_Witness ==
  /\ Done(1)
  /\ \E t \in 1..Len(calls[1].textSets) :
       LET ts == calls[1].textSets[t]
           m == Len(PointsOf(ts))
       IN /\ m >= 2 /\ ts.startDay >= 0
          /\ calls[1].count >= ts.startDay + m
          /\ NoCollision(1, t)
          /\ calls[1].flowers[ts.startDay + m].textSetId = ts.id
  /\ \E t \in 1..Len(calls[1].textSets) :
       /\ calls[1].textSets[t].startDay < 0
       /\ Len(PointsOf(calls[1].textSets[t])) >= 2

\* C6. Last write wins: the flower of a day that two or more configs schedule
\* is the point, variant and textSetId of the last of them in the list.
C6_LastWriteWins ==
  \A c \in CallIds : Done(c) =>
    \A d \in 0..(Len(calls[c].flowers) - 1) :
      Cardinality(Schedulers(c, d)) >= 2 =>
        LET t == CHOOSE t \in Schedulers(c, d) : \A u \in Schedulers(c, d) : u <= t
            ts == calls[c].textSets[t]
            k == d - ts.startDay
        IN /\ IsPointOf(calls[c].flowers[d + 1], ts, k)
           /\ calls[c].flowers[d + 1].svg = VariantOf(PointsOf(ts)[k + 1], k)

\* C6 witness: a planted day scheduled by two configs, the later of which
\* starts earlier, and another one where the later config starts later
C6_Witness ==
  /\ Done(1)
  /\ \E d \in 0..(Len(calls[1].flowers) - 1) :
       \E t, u \in Schedulers(1, d) :
         t < u /\ calls[1].textSets[u].startDay < calls[1].textSets[t].startDay
  /\ Done(2)
  /\ \E d \in 0..(Len(calls[2].flowers) - 1) :
       \E t, u \in Schedulers(2, d) :
         t < u /\ calls[2].textSets[u].startDay > calls[2].textSets[t].startDay

\* the helpers have assigned species to the spawn points
Assigned == pipe.pc \in {"assigned", "placed"}

\* the occurrence number, from 0, of each assigned point among those of its letter
Occurrences ==
  [k \in 1..Len(pipe.assigned) |->
     Cardinality({j \in 1..(k - 1) :
                    pipe.assigned[j].letterIndex = pipe.assigned[k].letterIndex})]

\* point k2 is a point of the letter of point k1, `by` occurrences after it
Follows(occ, k1, k2, by) ==
  /\ pipe.assigned[k2].letterIndex = pipe.assigned[k1].letterIndex
  /\ occ[k2] = occ[k1] + by

\* the effective species pool of the letter of point k
EffectivePool(k) ==
  ActivePool(pipe.assigned[k].letterIndex, pipe.maskResult,
             pipe.enabledSpecies, pipe.lineSpecies)

\* no three consecutive points of one letter, the first of which has an
\* effective pool of three or more species, are all given the same species
VariedBy(occ) ==
  \A k1 \in 1..Len(pipe.assigned) :
    Cardinality(Range(EffectivePool(k1))) >= 3 =>
      \A k2 \in (k1 + 1)..Len(pipe.assigned) :
        Follows(occ, k1, k2, 1) =>
          \A k3 \in (k2 + 1)..Len(pipe.assigned) :
            Follows(occ, k1, k3, 2) =>
              ~(/\ pipe.assigned[k1].species = pipe.assigned[k2].species
                /\ pipe.assigned[k2].species = pipe.assigned[k3].species)

\* C7, as claimed. Letter-local variety: where the effective pool of a letter
\* has three or more species, no three consecutive points of the letter are
\* all given the same species.
C7_LetterLocalVariety == Assigned => VariedBy(Occurrences)

\* C8. Sunflower exclusion: when the enabled pool is empty or lists a species
\* other than sunflower, no assigned point has the species sunflower and no
\* placement has a sunflower variant, whatever the line palettes.
C8_SunflowerExclusion ==
  (Assigned /\ (pipe.enabledSpecies = <<>> \/ Range(pipe.enabledSpecies) # {"sunflower"})) =>
    /\ \A k \in 1..Len(pipe.assigned) : pipe.assigned[k].species # "sunflower"
    /\ \A k \in 1..Len(pipe.svgs) : pipe.svgs[k].species # "sunflower"

\* C8 witness: points have been assigned and given variants under a palette
\* that lists sunflower and an enabled pool that lists sunflower among others
C8_Witness ==
  /\ pipe.pc = "placed"
  /\ Len(pipe.svgs) >= 3
  /\ "sunflower" \in Range(pipe.enabledSpecies)
  /\ Range(pipe.enabledSpecies) # {"sunflower"}
  /\ \E l \in 1..Len(pipe.lineSpecies) : "sunflower" \in Range(pipe.lineSpecies[l])

\* C9. A call given count <= 0 pushes no flower, whatever the configs: in
\* the day loop only the return is left to it, and it returns the empty list.
C9_EmptyForNonPositiveCount ==
  \A c \in CallIds :
    (calls[c].pc \in {"loop", "done"} /\ calls[c].count <= 0) =>
      /\ calls[c].flowers = <<>>
      /\ calls[c].i >= calls[c].count

\* C9 witness: a call with count <= 0 returned although a config scheduled day 0
C9_Witness ==
  /\ Done(1)
  /\ calls[1].count <= 0
  /\ 0 \in DOMAIN calls[1].textSlotMap
  /\ \E t \in 1..Len(calls[1].textSets) : calls[1].textSets[t].startDay < 0

\* C10. A config whose lines list is empty has a mask of zero rows, no spawn
\* point and no slot, so no flower of the call carries its id; when every
\* config of the call is such, every flower is an ordinary one.
C10_EmptyLines ==
  \A c \in CallIds : calls[c].pc \in {"loop", "done"} =>
    /\ \A t \in 1..Len(calls[c].textSets) :
         LET ts == calls[c].textSets[t]
             maskResult == buildTextMask(ts.lines, ts.maskOptions)
         IN ts.lines = <<>> =>
              /\ Len(maskResult.mask) = 0
              /\ generateFlowerPositionsFromMask(
                   maskResult,
                   [width |-> ts.bounds.width, height |-> ts.bounds.height,
                    offsetX |-> ts.bounds.offsetX, offsetY |-> ts.bounds.offsetY,
                    seed |-> <<ts.seed>>, jitter |-> <<ts.jitter>>],
                   ts.density, salt) = <<>>
              /\ \A d \in DOMAIN calls[c].textSlotMap : calls[c].textSlotMap[d].textSetId # ts.id
              /\ \A j \in 1..Len(calls[c].flowers) : calls[c].flowers[j].textSetId # ts.id
    /\ (\A t \in 1..Len(calls[c].textSets) : calls[c].textSets[t].lines = <<>>) =>
         /\ calls[c].textSlotMap = <<>>
         /\ TextIds(c) = {}
         /\ \A j \in 1..Len(calls[c].flowers) : calls[c].flowers[j].textSetId = NoTextSet

\* C10 witness: a call whose only config has no line returned flowers, the
\* config's start day among them
C10_Witness ==
  /\ Done(1)
  /\ Len(calls[1].textSets) = 1
  /\ calls[1].textSets[1].lines = <<>>
  /\ calls[1].count > calls[1].textSets[1].startDay
  /\ calls[1].count > totalCells
  /\ Len(calls[1].flowers) = calls[1].count

\* the characters (line, position) of the caller's lines that have no glyph
UnknownChars ==
  LET Without(keys) ==
        {lp \in UNION {{l} \X (1..Len(pipe.lines[l])) : l \in 1..Len(pipe.lines)} :
           toUpperCase(pipe.lines[lp[1]][lp[2]]) \notin keys}
  IN Without(DOMAIN PIXEL_FONT)

\* the caller's lines with a space in the place of every character of `unknown`
SpacedLines(unknown) ==
  [l \in 1..Len(pipe.lines) |->
     [p \in 1..Len(pipe.lines[l]) |->
        IF <<l, p>> \in unknown THEN " " ELSE pipe.lines[l][p]]]

\* the mask is a grid of the laid-out size
WellFormed(maskResult, dm) ==
  /\ Len(maskResult.mask) = dm.rows
  /\ Len(maskResult.letterMap) = dm.rows
  /\ \A row \in 1..dm.rows :
       Len(maskResult.mask[row]) = dm.cols /\ Len(maskResult.letterMap[row]) = dm.cols

\* no cell of the letter map carries the letter index of a character of `unknown`
NoCellOf(unknown, stamps, maskResult) ==
  \A k \in 1..Len(stamps) :
    <<stamps[k].lineIndex + 1, stamps[k].charPosition + 1>> \in unknown =>
      \A row \in 1..Len(maskResult.letterMap) :
        \A col \in 1..Len(maskResult.letterMap[row]) :
          maskResult.letterMap[row][col] # stamps[k].currentIndex

\* the unknown characters turn on nothing and take the room of a space
DrawnAsSpace(unknown, dm) ==
  /\ WellFormed(pipe.maskResult, dm)
  /\ pipe.maskResult.mask = buildTextMask(SpacedLines(unknown), pipe.options).mask
  /\ NoCellOf(unknown, AllStamps(pipe.lines, 0, 0, dm), pipe.maskResult)

\* C11. A character with no glyph is drawn as the space glyph: buildTextMask
\* returns a grid of the laid-out size, the mask is the mask of the same
\* lines with a space in the character's place (no cell on for it, the
\* characters after it where they would be after a space), and no cell
\* carries its letter index.
C11_UnknownAsSpace ==
  pipe.pc = "masked" =>
    DrawnAsSpace(UnknownChars, MaskDims(pipe.lines, pipe.options))

\* C11 witness: a mask of a line with an unknown character between two known
\* ones, the one after it with cells on
C11_Witness ==
  /\ pipe.pc = "masked"
  /\ \E lp \in UnknownChars :
       /\ lp[2] > 1 /\ lp[2] < Len(pipe.lines[lp[1]])
       /\ \E row \in 1..Len(pipe.maskResult.letterMap) :
            \E col \in 1..Len(pipe.maskResult.letterMap[row]) :
              pipe.maskResult.letterMap[row][col] = lp[2]

\* the cells of the caller's mask that are on
OnCells ==
  {rc \in UNION {{row} \X (1..Len(pipe.maskResult.mask[row])) :
                   row \in 1..Len(pipe.maskResult.mask)} :
     pipe.maskResult.mask[rc[1]][rc[2]]}

\* the caller's lines are one line of one character that has a glyph, and
\* the magnifications given are whole numbers >= 1 or left out
OneGlyph ==
  /\ Len(pipe.lines) = 1
  /\ Len(pipe.lines[1]) = 1
  /\ toUpperCase(pipe.lines[1][1]) \in DOMAIN PIXEL_FONT
  /\ Coalesce(pipe.options.pixelScaleX, 1) >= 1
  /\ Coalesce(pipe.options.pixelScaleY, 1) >= 1

\* C12. Mask round-trip for one glyph: the mask of a one-character line has
\* as many on cells as the glyph has 1s, times pixelScaleX * pixelScaleY,
\* and every on cell, and no other, carries letter index 0.
C12_MaskRoundTrip ==
  (pipe.pc = "masked" /\ OneGlyph) =>
    /\ Cardinality(OnCells) =
         GlyphOnes(GlyphOf(toUpperCase(pipe.lines[1][1])))
           * Coalesce(pipe.options.pixelScaleX, 1) * Coalesce(pipe.options.pixelScaleY, 1)
    /\ \A row \in 1..Len(pipe.maskResult.mask) :
         \A col \in 1..Len(pipe.maskResult.mask[row]) :
           pipe.maskResult.letterMap[row][col] =
             IF pipe.maskResult.mask[row][col] THEN 0 ELSE -1

\* C12 witness: the mask of one glyph with 1s, magnified
C12_Witness ==
  /\ pipe.pc = "masked"
  /\ OneGlyph
  /\ OnCells # {}
  /\ Coalesce(pipe.options.pixelScaleX, 1) * Coalesce(pipe.options.pixelScaleY, 1) > 1

\* the ordinary flowers of call c before list position j
OrdinaryBefore(c, j) ==
  {h \in 1..(j - 1) : calls[c].flowers[h].textSetId = NoTextSet}

\* C13. Grid cells are consumed in permutation order: the k-th ordinary
\* flower in id order, k < COLS*ROWS, lies in cell indices[k] however many
\* message days precede it; with no config the flower with id i lies in
\* cell indices[i]; and the cursor counts the ordinary flowers.
C13_PermutationOrder ==
  \A c \in CallIds : calls[c].pc \in {"loop", "done"} =>
    /\ \A j \in 1..Len(calls[c].flowers) :
         (/\ calls[c].flowers[j].textSetId = NoTextSet
          /\ Cardinality(OrdinaryBefore(c, j)) < totalCells) =>
           /\ CellOfFlower(calls[c].flowers[j]) =
                calls[c].indices[Cardinality(OrdinaryBefore(c, j)) + 1]
           /\ calls[c].textSets = <<>> =>
                CellOfFlower(calls[c].flowers[j]) = calls[c].indices[calls[c].flowers[j].id + 1]
    /\ calls[c].gridCellUsed =
         Min2(totalCells, Cardinality(OrdinaryBefore(c, Len(calls[c].flowers) + 1)))

\* C13 witness: a finished call that used every grid cell, with two or more
\* message days between its grid flowers
C13_Witness ==
  /\ Done(1)
  /\ calls[1].gridCellUsed = totalCells
  /\ \E t1, t2 \in TextIds(1), g1, g2 \in GridIds(1) : g1 < t1 /\ t1 < t2 /\ t2 < g2

\* lo/den <= q <= hi/den for a rational q and den > 0
Within(q, lo, hi, den) == lo * q.d <= q.n * den /\ q.n * den <= hi * q.d

\* C14. Ordinary placement bounds: a flower taken from grid cell (col, row)
\* has x in [col*100/COLS, (col+1)*100/COLS] and y in [row*100/ROWS,
\* (row+1)*100/ROWS]; every ordinary flower, the fallback ones included,
\* has x and y in [0, 100].
C14_OrdinaryBounds ==
  \A c \in CallIds :
    /\ \A k \in GridIds(c) :
         /\ Within(calls[c].flowers[k].x, (calls[c].origin[k].cell % COLS) * 100,
                   ((calls[c].origin[k].cell % COLS) + 1) * 100, COLS)
         /\ Within(calls[c].flowers[k].y, (calls[c].origin[k].cell \div COLS) * 100,
                   ((calls[c].origin[k].cell \div COLS) + 1) * 100, ROWS)
    /\ \A k \in GridIds(c) \cup FallbackIds(c) :
         /\ Within(calls[c].flowers[k].x, 0, 100, 1)
         /\ Within(calls[c].flowers[k].y, 0, 100, 1)

\* C14 witness: a finished call with a flower from the last grid cell and
\* fallback flowers
C14_Witness ==
  /\ Done(1)
  /\ \E k \in GridIds(1) : calls[1].origin[k].cell = totalCells - 1
  /\ FallbackIds(1) # {}
  /\ \E k \in FallbackIds(1) : calls[1].flowers[k].x.n > 0

\* a <= b for rationals with positive denominators: whole parts first, then
\* the fractions
RatLe(a, b) ==
  \/ a.n \div a.d < b.n \div b.d
  \/ /\ a.n \div a.d = b.n \div b.d
     /\ (a.n % a.d) * b.d <= (b.n % b.d) * a.d

\* a + b * c for rationals
RatAddMul(a, b, c) == [n |-> a.n * b.d * c.d + b.n * c.n * a.d, d |-> a.d * b.d * c.d]

\* offset + (cell + 0.5 + side * jitter / 2) * span / cells
JitterEdge(offset, cell, side, jitter, span, cells) ==
  RatAddMul(offset,
            [n |-> (2 * cell + 1) * jitter.d + side * jitter.n, d |-> 2 * jitter.d],
            [n |-> span, d |-> cells])

\* the position v of a point of mask cell `cell` lies within half a jitter
\* of the cell's centre, and inside the box when the jitter is in [0, 1]
InJitterSpan(v, offset, cell, jitter, span, cells) ==
  /\ RatLe(JitterEdge(offset, cell, -1, jitter, span, cells), v)
  /\ RatLe(v, JitterEdge(offset, cell, 1, jitter, span, cells))
  /\ (jitter.n >= 0 /\ jitter.n <= jitter.d) =>
       /\ RatLe(offset, v)
       /\ RatLe(v, [n |-> offset.n + span * offset.d, d |-> offset.d])

\* bounds.offsetX ?? (100 - width) / 2, and the same for y
OffsetOr(given, span) ==
  IF given = <<>> THEN [n |-> 100 - span, d |-> 2] ELSE [n |-> given[1], d |-> 1]

\* bounds.jitter ?? 0.15
JitterOr(given) == IF given = <<>> THEN [n |-> 3, d |-> 20] ELSE given[1]

\* C15. Message placement bounds: a spawn point of mask cell (row, col) has
\* x within offsetX + (col + 0.5 +- jitter/2) * width/cols and y within
\* offsetY + (row + 0.5 +- jitter/2) * height/rows, hence inside the box
\* when the jitter is in [0, 1]; an offset left out is (100 - size) / 2.
C15_MessageBounds ==
  pipe.pc = "spawned" =>
    \A k \in 1..Len(pipe.points) :
      /\ InJitterSpan(pipe.points[k].x, OffsetOr(pipe.bounds.offsetX, pipe.bounds.width),
                      pipe.points[k].col, JitterOr(pipe.bounds.jitter),
                      pipe.bounds.width, Len(pipe.maskResult.mask[1]))
      /\ InJitterSpan(pipe.points[k].y, OffsetOr(pipe.bounds.offsetY, pipe.bounds.height),
                      pipe.points[k].row, JitterOr(pipe.bounds.jitter),
                      pipe.bounds.height, Len(pipe.maskResult.mask))

\* C15 witness: spawn points of a box with offsets left out, one of them on
\* the lower edge of its jitter span
C15_Witness ==
  /\ pipe.pc = "spawned"
  /\ pipe.bounds.offsetX = <<>> /\ pipe.bounds.offsetY = <<>>
  /\ Len(pipe.points) >= 2
  /\ \E k \in 1..Len(pipe.points) :
       RatLe(pipe.points[k].x,
             JitterEdge(OffsetOr(pipe.bounds.offsetX, pipe.bounds.width), pipe.points[k].col,
                        -1, JitterOr(pipe.bounds.jitter), pipe.bounds.width,
                        Len(pipe.maskResult.mask[1])))

\* what every call the requests can make returns when it runs alone
AloneTable ==
  [slt \in ConcSalts |->
     [count \in Counts |->
        [textSets \in TextSetLists |-> generateGarden(count, textSets, slt)]]]

\* the list call c returns when it runs alone
Alone(c) == AloneTable[salt][calls[c].count][calls[c].textSets]

\* the flowers call c has pushed are the first flowers of `alone`, and all
\* of them once it has returned
AsAlone(c, alone) ==
  /\ Len(calls[c].flowers) <= Len(alone)
  /\ calls[c].flowers = SubSeq(alone, 1, Len(calls[c].flowers))
  /\ Done(c) => calls[c].flowers = alone

\* C16. Concurrent invocation is safe: however the steps of the calls are
\* interleaved, what a call has pushed is at every step the beginning of the
\* list it returns when run alone, and it returns that list.
C16_ConcurrentSafe ==
  \A c \in CallIds : calls[c].pc \in {"loop", "done"} => AsAlone(c, Alone(c))

\* C16 witness: two calls with different counts and configs, both in the
\* middle of their day loops, each past text and grid days
C16_Witness ==
  /\ calls[1].pc = "loop" /\ calls[2].pc = "loop"
  /\ calls[1].count # calls[2].count
  /\ calls[1].textSets # calls[2].textSets
  /\ \A c \in CallIds :
       /\ calls[c].i < calls[c].count
       /\ TextIds(c) # {} /\ GridIds(c) # {}

\* the ordinary flowers of call c: grid and fallback
OrdinaryIds(c) == GridIds(c) \cup FallbackIds(c)

\* the mask row of the point that text flower k of call c was made from
MaskRowOf(c, k) == calls[c].textSlotMap[k - 1].point.row

\* C17. Layering: every ordinary flower has zIndex = floor(y), which lies in
\* [0, 99]; every message flower has zIndex = 200 + its mask row; so each
\* message flower's zIndex is greater than each ordinary flower's, and within
\* one message a point on a row further down (larger row number) never has a
\* smaller zIndex than a point on a row further up.
C17_Layering ==
  \A c \in CallIds :
    /\ \A k \in OrdinaryIds(c) :
         /\ calls[c].flowers[k].zIndex = Floor(calls[c].flowers[k].y)
         /\ calls[c].flowers[k].zIndex \in 0..99
    /\ \A k \in TextIds(c) :
         /\ MaskRowOf(c, k) >= 0
         /\ calls[c].flowers[k].zIndex = 200 + MaskRowOf(c, k)
         /\ \A o \in OrdinaryIds(c) :
              calls[c].flowers[k].zIndex > calls[c].flowers[o].zIndex
         /\ \A j \in TextIds(c) :
              (/\ calls[c].flowers[j].textSetId = calls[c].flowers[k].textSetId
               /\ MaskRowOf(c, j) > MaskRowOf(c, k))
                => calls[c].flowers[j].zIndex >= calls[c].flowers[k].zIndex

\* C17 witness: a finished call with flowers of one message on two mask
\* rows, a fallback flower, and an ordinary flower in the lower half of the
\* garden
C17_Witness ==
  /\ Done(1)
  /\ \E j, k \in TextIds(1) :
       /\ calls[1].flowers[j].textSetId = calls[1].flowers[k].textSetId
       /\ MaskRowOf(1, j) > MaskRowOf(1, k)
  /\ FallbackIds(1) # {}
  /\ \E k \in OrdinaryIds(1) : calls[1].flowers[k].zIndex >= 50

\* generateFlowerPositionsFromMask has returned to the caller
Spawned == pipe.pc \in {"spawned", "assigned", "placed"}

\* the spawn points the caller got for mask cell rc
CopiesOf(rc) ==
  {k \in 1..Len(pipe.points) :
     pipe.points[k].row = rc[1] - 1 /\ pipe.points[k].col = rc[2] - 1}

\* the sum of 2c over the on cells, c the copies of the cell
TwoPerCopy == 2 * Cardinality(UNION {CopiesOf(rc) : rc \in OnCells})

\* density has a fractional part
HasFraction(density) == density.n % density.d # 0

\* C18, as claimed. PRNG consumption: the stream is advanced by 1 + 2c values
\* for every on cell with c copies, whether or not density has a fractional
\* part.
C18_OneDrawPerCellAsClaimed ==
  Spawned => pipe.rng.n = Cardinality(OnCells) + TwoPerCopy

\* C18, amended. The extra-copy decision consumes one value for an on cell
\* only when density has a fractional part: the stream is advanced by 1 + 2c
\* values per on cell then, and by 2c values when density is a whole number.
C18_OneDrawPerCell ==
  Spawned =>
    pipe.rng.n = (IF HasFraction(pipe.density) THEN Cardinality(OnCells) ELSE 0)
                 + TwoPerCopy

\* C18 witness: a scan at a whole density that made points for several cells
C18_Witness ==
  /\ pipe.pc = "spawned"
  /\ ~HasFraction(pipe.density)
  /\ Cardinality(OnCells) > 1
  /\ Len(pipe.points) >= Cardinality(OnCells)

\* every cell of the caller's mask, on or off
AllCells ==
  UNION {{row} \X (1..Len(pipe.maskResult.mask[row])) : row \in 1..Len(pipe.maskResult.mask)}

\* C19. Density: for density d >= 0 every on cell yields floor(d) or
\* floor(d) + 1 spawn points (exactly d when d is a whole number, 0 or 1 when
\* 0 < d < 1), every off cell yields none, and density <= 0 yields an empty
\* list.
C19_CopiesPerCell ==
  Spawned =>
    /\ pipe.density.n >= 0 =>
         \A rc \in OnCells :
           /\ Cardinality(CopiesOf(rc)) \in {Floor(pipe.density), Floor(pipe.density) + 1}
           /\ ~HasFraction(pipe.density) =>
                Cardinality(CopiesOf(rc)) = Floor(pipe.density)
    /\ \A rc \in AllCells \ OnCells : CopiesOf(rc) = {}
    /\ \A k \in 1..Len(pipe.points) :
         <<pipe.points[k].row + 1, pipe.points[k].col + 1>> \in OnCells
    /\ pipe.density.n <= 0 => pipe.points = <<>>

\* C19 witness: a scan at density 2.5 of a mask with off cells that gave one
\* cell 2 points and another cell 3
C19_Witness ==
  /\ pipe.pc = "spawned"
  /\ pipe.density = [n |-> 5, d |-> 2]
  /\ AllCells \ OnCells # {}
  /\ \E rc \in OnCells : Cardinality(CopiesOf(rc)) = 2
  /\ \E rc \in OnCells : Cardinality(CopiesOf(rc)) = 3

\* point p is not after point q in row-major order of their cells
CellNotAfter(p, q) == p.row < q.row \/ (p.row = q.row /\ p.col <= q.col)

\* point q is point p with a species set and nothing else changed
SameButSpecies(p, q) == [q EXCEPT !.species = p.species] = p

\* C20. Order: the list generateFlowerPositionsFromMask returns is sorted by
\* (row, col) in row-major order, so the copies of one cell are adjacent, and
\* the point at list position k has pixelIndex k; assignSpeciesToPoints
\* keeps the length and the order of the list.
C20_RowMajorOrder ==
  /\ Spawned =>
       /\ \A k \in 1..Len(pipe.points) : pipe.points[k].pixelIndex = k - 1
       /\ \A k \in 1..(Len(pipe.points) - 1) :
            CellNotAfter(pipe.points[k], pipe.points[k + 1])
  /\ Assigned =>
       /\ Len(pipe.assigned) = Len(pipe.points)
       /\ \A k \in 1..Len(pipe.points) : SameButSpecies(pipe.points[k], pipe.assigned[k])

\* C20 witness: an assigned list with two copies of one cell next to each
\* other, a step to the next column and a step to the next row, and a
\* species on every point
C20_Witness ==
  /\ pipe.pc = "assigned"
  /\ \E k \in 1..(Len(pipe.points) - 1) :
       /\ pipe.points[k].row = pipe.points[k + 1].row
       /\ pipe.points[k].col = pipe.points[k + 1].col
  /\ \E k \in 1..(Len(pipe.points) - 1) :
       /\ pipe.points[k].row = pipe.points[k + 1].row
       /\ pipe.points[k].col < pipe.points[k + 1].col
  /\ \E k \in 1..(Len(pipe.points) - 1) : pipe.points[k].row < pipe.points[k + 1].row
  /\ \A k \in 1..Len(pipe.assigned) : pipe.assigned[k].species # NoSpecies

\* the caller gave no enabled species and no species in any line palette
NothingEnabled ==
  /\ pipe.enabledSpecies = <<>>
  /\ \A l \in 1..Len(pipe.lineSpecies) : pipe.lineSpecies[l] = <<>>

\* C21, as claimed. With the enabled pool empty and every line palette empty
\* assignSpeciesToPoints returns the spawn points unmodified, no species set.
C21_EmptyPoolsNoOpAsClaimed ==
  (Assigned /\ NothingEnabled) => pipe.assigned = pipe.points

\* C21, amended. With the enabled pool empty and every line palette empty
\* assignSpeciesToPoints is not a no-op: every point is returned with a species
\* of the default list other than sunflower, and nothing else changed.
C21_EmptyPoolsNoOp ==
  (Assigned /\ NothingEnabled) =>
    /\ Len(pipe.assigned) = Len(pipe.points)
    /\ \A k \in 1..Len(pipe.assigned) :
         /\ pipe.assigned[k].species \in Range(DEFAULT_SPECIES) \ {"sunflower"}
         /\ pipe.points[k].species = NoSpecies
         /\ SameButSpecies(pipe.points[k], pipe.assigned[k])

\* C21 witness: points assigned with no enabled species and one empty palette
C21_Witness ==
  /\ pipe.pc = "assigned"
  /\ NothingEnabled
  /\ pipe.lineSpecies # <<>>
  /\ Len(pipe.assigned) >= 3

\* C22. Default species: with an empty enabled pool every point is given a
\* species, and that species is one of the six of the default list, whatever
\* the line palettes name.
C22_DefaultSpecies ==
  (Assigned /\ pipe.enabledSpecies = <<>>) =>
    /\ DEFAULT_SPECIES = <<"forgetmenot", "lily", "peony", "rose", "tulip", "sunflower">>
    /\ Len(pipe.assigned) = Len(pipe.points)
    /\ \A k \in 1..Len(pipe.assigned) :
         /\ pipe.assigned[k].species # NoSpecies
         /\ pipe.assigned[k].species \in Range(DEFAULT_SPECIES)

\* C22 witness: points of two lines assigned with no enabled species under
\* palettes, one of which names a species the default list does not have
C22_Witness ==
  /\ pipe.pc = "assigned"
  /\ pipe.enabledSpecies = <<>>
  /\ \E l \in 1..Len(pipe.lineSpecies) :
       /\ Range(pipe.lineSpecies[l]) \ Range(DEFAULT_SPECIES) # {}
       /\ \E k \in 1..Len(pipe.assigned) : pipe.assigned[k].lineIndex = l - 1

\* the species the rotation of `pool` that starts at `start` gives the point
\* with occurrence number o: the first three of the rotation, or all of them
\* when the pool has fewer, taken in turn
RotationPick(pool, start, o) ==
  pool[((start + (o % Min2(SPECIES_PER_LETTER, Len(pool)))) % Len(pool)) + 1]

\* letterIndexWithinLine of the letter of assigned point k
IndexWithinLine(k) == pipe.maskResult.letterMeta[pipe.assigned[k].letterIndex + 1].letterIndex

\* every assigned point has the species of its letter's rotation
StartsAtOffset(occ) ==
  \A k \in 1..Len(pipe.assigned) :
    LET Picked(pool) == RotationPick(pool, IndexWithinLine(k) % Len(pool), occ[k])
    IN pipe.assigned[k].species = Picked(EffectivePool(k))

\* C23, as claimed. Starting offset: for every letter and every effective
\* palette length L >= 1 the first point of the letter has the species at
\* index (letterIndexWithinLine mod L) of the effective palette, and the
\* following points take the next species of that rotation in turn, over at
\* most 3 of them.
C23_StartOffset == Assigned => StartsAtOffset(Occurrences)

\* the species of the enabled pool; of the default list when the caller
\* enabled none
EnabledSet ==
  IF pipe.enabledSpecies = <<>> THEN Range(DEFAULT_SPECIES) ELSE Range(pipe.enabledSpecies)

\* assigned point k lies on a line that has a palette
HasPalette(k) == pipe.assigned[k].lineIndex < Len(pipe.lineSpecies)

\* the palette of the line of assigned point k, sunflower removed and
\* restricted to the enabled pool
FilteredPalette(k) ==
  (Range(pipe.lineSpecies[pipe.assigned[k].lineIndex + 1]) \ {"sunflower"}) \cap EnabledSet

\* C24. Palette respect: the species of a point on line L is a member of
\* lineSpecies[L] with sunflower removed and restricted to the enabled pool
\* whenever that list is not empty; when the filter empties the list, or the
\* line has no palette, the species is one of the enabled pool.
C24_PaletteRespect ==
  Assigned =>
    \A k \in 1..Len(pipe.assigned) :
      IF HasPalette(k) /\ FilteredPalette(k) # {}
      THEN pipe.assigned[k].species \in FilteredPalette(k)
      ELSE pipe.assigned[k].species \in EnabledSet

\* C24 witness: points of two lines assigned, one line with a palette the
\* filter leaves species of, the other with a palette the filter empties
C24_Witness ==
  /\ pipe.pc = "assigned"
  /\ pipe.enabledSpecies # <<>>
  /\ \E k \in 1..Len(pipe.assigned) :
       /\ HasPalette(k)
       /\ FilteredPalette(k) # {}
       /\ FilteredPalette(k) # EnabledSet
  /\ \E k \in 1..Len(pipe.assigned) :
       /\ HasPalette(k)
       /\ pipe.lineSpecies[pipe.assigned[k].lineIndex + 1] # <<>>
       /\ FilteredPalette(k) = {}

\* buildTextMask has returned to the caller
Masked == pipe.pc # "idle"

\* mask and letterMap of m agree cell by cell: on exactly where a letter
\* index is written, and that index has an entry in letterMeta
CellsAgree(m) ==
  \A row \in 1..Len(m.mask) :
    \A col \in 1..Len(m.mask[row]) :
      /\ m.mask[row][col] <=> m.letterMap[row][col] # -1
      /\ m.letterMap[row][col] # -1 =>
           m.letterMap[row][col] \in 0..(Len(m.letterMeta) - 1)

\* C25. Mask and letter map agree: for a non-empty line list mask and
\* letterMap are grids of the same rows x cols shape with at least one row,
\* a cell is on if and only if its letterMap entry is not -1, and every such
\* entry is an index into letterMeta; so no spawn point carries the sentinel
\* and, at a density of 1 or more, no on cell is left without a point.
C25_MaskLetterMapAgree ==
  /\ (Masked /\ pipe.lines # <<>>) =>
       /\ Len(pipe.maskResult.mask) > 0
       /\ WellFormed(pipe.maskResult, MaskDims(pipe.lines, pipe.options))
       /\ CellsAgree(pipe.maskResult)
  /\ Spawned =>
       /\ \A k \in 1..Len(pipe.points) : pipe.points[k].letterIndex # -1
       /\ Floor(pipe.density) >= 1 => \A rc \in OnCells : CopiesOf(rc) # {}

\* C25 witness: points spawned at density 1 from the mask of two lines with
\* three letters and a space, with cells on and cells off
C25_Witness ==
  /\ pipe.pc = "spawned"
  /\ Len(pipe.lines) = 2
  /\ Len(pipe.maskResult.letterMeta) = 3
  /\ \E l \in 1..Len(pipe.lines) : " " \in Range(pipe.lines[l])
  /\ pipe.density = [n |-> 1, d |-> 1]
  /\ Len(pipe.points) = Cardinality(OnCells)
  /\ AllCells \ OnCells # {}
  /\ \E k \in 1..Len(pipe.points) : pipe.points[k].letterIndex = 2

\* the characters (line, position) of the caller's lines that are not a space
NonSpaces ==
  {lp \in UNION {{l} \X (1..Len(pipe.lines[l])) : l \in 1..Len(pipe.lines)} :
     toUpperCase(pipe.lines[lp[1]][lp[2]]) # " "}

\* the number of non-space characters before lp in reading order
Rank(lp, nonSpaces) ==
  Cardinality({q \in nonSpaces : q[1] < lp[1] \/ (q[1] = lp[1] /\ q[2] < lp[2])})

\* the first column of the room of the character at position p of line l:
\* the centred start of the line and one step for every character before it,
\* spaces included
RoomStart(l, p, dm) ==
  ((dm.cols - (Max2(Len(pipe.lines[l]), 1) * (dm.scaledCharWidth + dm.charSpacing)
               - dm.charSpacing)) \div 2)
  + (p - 1) * (dm.scaledCharWidth + dm.charSpacing)

\* every cell that carries letter index i lies in the room of its character
InRoom(i, l, p, dm) ==
  \A rc \in OnCells :
    pipe.maskResult.letterMap[rc[1]][rc[2]] = i =>
      /\ rc[2] - 1 >= RoomStart(l, p, dm)
      /\ rc[2] - 1 < RoomStart(l, p, dm) + dm.scaledCharWidth
      /\ rc[1] - 1 >= (l - 1) * (dm.scaledCharHeight + dm.lineSpacing)
      /\ rc[1] - 1 < (l - 1) * (dm.scaledCharHeight + dm.lineSpacing) + dm.scaledCharHeight

\* letters and letterMeta list the characters of nonSpaces in reading order
IndexedInOrder(nonSpaces, dm) ==
  /\ Len(pipe.maskResult.letters) = Cardinality(nonSpaces)
  /\ Len(pipe.maskResult.letterMeta) = Cardinality(nonSpaces)
  /\ \A lp \in nonSpaces :
       LET Indexed(i) ==
             /\ pipe.maskResult.letters[i + 1] = toUpperCase(pipe.lines[lp[1]][lp[2]])
             /\ pipe.maskResult.letterMeta[i + 1] =
                  [lineIndex |-> lp[1] - 1, letterIndex |-> lp[2] - 1,
                   char |-> toUpperCase(pipe.lines[lp[1]][lp[2]])]
             /\ InRoom(i, lp[1], lp[2], dm)
       IN Indexed(Rank(lp, nonSpaces))

\* C26. Letter indexing: the non-space characters, and only they, are given
\* the letter indices 0, 1, 2, ... in reading order, letters and letterMeta
\* have one entry for each, a space takes no index but its room in the line,
\* and letterMeta[k].letterIndex is the character's position in its line,
\* the spaces before it counted.
C26_LetterIndexing ==
  Masked => IndexedInOrder(NonSpaces, MaskDims(pipe.lines, pipe.options))

\* C26 witness: the mask of two lines, the first with a space before a
\* letter that has cells, the second with a letter that has cells
C26_Witness ==
  /\ pipe.pc = "masked"
  /\ Len(pipe.lines) = 2
  /\ \E lp \in NonSpaces :
       /\ lp[1] = 1
       /\ \E p \in 1..(lp[2] - 1) : pipe.lines[1][p] = " "
       /\ Rank(lp, NonSpaces) < lp[2] - 1
       /\ \E rc \in OnCells :
            pipe.maskResult.letterMap[rc[1]][rc[2]] = Rank(lp, NonSpaces)
  /\ \E rc \in OnCells :
       pipe.maskResult.letterMap[rc[1]][rc[2]] = Len(pipe.maskResult.letters) - 1

\* the cursor of call c is within the permutation, and every grid flower of
\* the call comes before every fallback flower, which exist only once all
\* cells are consumed
GridThenFallback(c) ==
  /\ calls[c].gridCellUsed \in 0..totalCells
  /\ FallbackIds(c) # {} => calls[c].gridCellUsed = totalCells
  /\ \A g \in GridIds(c) : \A f \in FallbackIds(c) : g < f

\* a step of call c that walks a non-message day takes the grid branch
\* exactly when a cell is left, reads the permutation at the cursor, inside
\* it, and moves the cursor by one; else it takes the fallback and leaves
\* the cursor
OrdinaryDayStep(c) ==
  (/\ calls[c].pc = "loop"
   /\ calls'[c].i = calls[c].i + 1
   /\ calls[c].i \notin DOMAIN calls[c].textSlotMap) =>
     LET pushed == calls'[c].origin[Len(calls'[c].origin)]
     IN IF calls[c].gridCellUsed < totalCells
        THEN /\ pushed.kind = "grid"
             /\ calls[c].gridCellUsed + 1 \in DOMAIN calls[c].indices
             /\ pushed.cell = calls[c].indices[calls[c].gridCellUsed + 1]
             /\ calls'[c].gridCellUsed = calls[c].gridCellUsed + 1
        ELSE /\ pushed.kind = "fallback"
             /\ calls'[c].gridCellUsed = calls[c].gridCellUsed

\* once every cell is consumed the cursor of call c stays where it is
StaysExhausted(c) ==
  (calls[c].gridCellUsed = totalCells /\ calls[c].pc = "loop") =>
    calls'[c].gridCellUsed = totalCells

\* C27. Grid exhaustion: the cursor never exceeds COLS*ROWS and never reads
\* past the end of the permutation; a non-message day gets a grid cell
\* exactly while the cursor is below COLS*ROWS; once every cell is consumed
\* all later non-message days use the fallback and the grid branch is never
\* taken again.
C27_GridExhaustion ==
  /\ [](\A c \in CallIds : GridThenFallback(c))
  /\ [][\A c \in CallIds : OrdinaryDayStep(c) /\ StaysExhausted(c)]_vars

\* C27 witness: a finished call that consumed every cell and then walked two
\* fallback days and a message day
C27_Witness ==
  /\ Done(1)
  /\ calls[1].gridCellUsed = totalCells
  /\ Cardinality(FallbackIds(1)) >= 2
  /\ \E t \in TextIds(1) : \E g \in GridIds(1) : g < t

\* flowers f and g agree on everything but id, dayNumber and date
SamePlacement(f, g) ==
  /\ f.x = g.x /\ f.y = g.y /\ f.svg = g.svg
  /\ f.scale = g.scale /\ f.rotation = g.rotation /\ f.zIndex = g.zIndex

\* C28. Ordinary placements do not depend on the message configs: in two
\* calls, whatever their configs and counts, the k-th ordinary flower in id
\* order comes from the same branch and the same grid cell and has the same
\* x, y, variant, scale and rotation; a message day takes no value of the
\* call's stream and every ordinary day takes five.
C28_OrdinaryIndependent ==
  /\ \A c \in CallIds :
       calls[c].pc \in {"loop", "done"} =>
         calls[c].rng.n = (totalCells - 1) + 5 * Cardinality(OrdinaryIds(c))
  /\ \A j1 \in OrdinaryIds(1) :
       \A j2 \in OrdinaryIds(2) :
         Cardinality(OrdinaryBefore(1, j1)) = Cardinality(OrdinaryBefore(2, j2)) =>
           /\ calls[1].origin[j1] = calls[2].origin[j2]
           /\ SamePlacement(calls[1].flowers[j1], calls[2].flowers[j2])

\* C28 witness: two finished calls with different configs, in which an
\* ordinary flower of the same rank lies on different days, and a fallback
\* flower of the same rank does too
C28_Witness ==
  /\ Done(1) /\ Done(2)
  /\ calls[1].textSets # calls[2].textSets
  /\ TextIds(1) # {} /\ TextIds(2) # {}
  /\ \E j1 \in GridIds(1) : \E j2 \in GridIds(2) :
       /\ j1 # j2
       /\ Cardinality(OrdinaryBefore(1, j1)) = Cardinality(OrdinaryBefore(2, j2))
  /\ \E j1 \in FallbackIds(1) : \E j2 \in FallbackIds(2) :
       /\ j1 # j2
       /\ Cardinality(OrdinaryBefore(1, j1)) = Cardinality(OrdinaryBefore(2, j2))

RECURSIVE OnesOf(_)
\* the 1s of the glyphs of a list of characters, added up
OnesOf(chars) ==
  IF chars = <<>> THEN 0
  ELSE GlyphOnes(GlyphOf(toUpperCase(Head(chars)))) + OnesOf(Tail(chars))

\* the spacings are not negative and the magnifications given are whole
\* numbers >= 1 or left out
PlainOptions ==
  /\ Coalesce(pipe.options.charSpacing, 2) >= 0
  /\ Coalesce(pipe.options.lineSpacing, 2) >= 0
  /\ Coalesce(pipe.options.pixelScaleX, 1) >= 1
  /\ Coalesce(pipe.options.pixelScaleY, 1) >= 1

\* every pixel the loops of the characters visit lies inside the grid, every
\* line starts at a column that is not negative, and no two characters
\* visit the same cell
NothingLost(stamps, dm) ==
  /\ \A k \in 1..Len(stamps) :
       /\ stamps[k].colCursor >= 0
       /\ StampCells(stamps[k], dm) \subseteq (0..(dm.rows - 1)) \X (0..(dm.cols - 1))
  /\ \A k1, k2 \in 1..Len(stamps) :
       k1 < k2 => StampCells(stamps[k1], dm) \cap StampCells(stamps[k2], dm) = {}

\* what C29 states, for the layout dm
PixelsKept(dm) ==
  /\ Cardinality(OnCells) = OnesOf(Flat(pipe.lines)) * dm.pixelScaleX * dm.pixelScaleY
  /\ NothingLost(AllStamps(pipe.lines, 0, 0, dm), dm)

\* C29. No glyph pixel is lost or overwritten: for a non-empty line list
\* with spacings >= 0 the mask has as many on cells as the glyphs of all
\* characters have 1s, times pixelScaleX * pixelScaleY; the bounds guard
\* discards no pixel, no line starts at a negative column, and no cell is
\* stamped by two characters.
C29_NoPixelLost ==
  (Masked /\ pipe.lines # <<>> /\ PlainOptions) =>
    PixelsKept(MaskDims(pipe.lines, pipe.options))

\* C29 witness: the magnified mask of two lines of different lengths, each
\* with a letter that has cells
C29_Witness ==
  /\ pipe.pc = "masked"
  /\ Len(pipe.lines) = 2
  /\ Len(pipe.lines[1]) # Len(pipe.lines[2])
  /\ PlainOptions
  /\ pipe.options.pixelScaleX = <<2>>
  /\ \A l \in 1..2 : OnesOf(pipe.lines[l]) > 0

\* the volumes are those of the scene in view and no frame is requested
Settled ==
  /\ audio.volume = TargetVolumes(SceneOf(audio.timeOfDay))
  /\ audio.volume[SceneOf(audio.timeOfDay)] = SCENE_AUDIO[SceneOf(audio.timeOfDay)].maxVolume
  /\ audio.pending = {}

\* a step that starts a fade on a mounted component cancels the frame that
\* was requested and starts from the volumes of that moment
RestartsFromCurrent ==
  (audio.mounted /\ audio'.mounted /\ audio'.fades = audio.fades + 1) =>
    /\ audio'.fadeState[1].from = audio.volume
    /\ audio'.fadeState[1].to = TargetVolumes(SceneOf(audio'.timeOfDay))
    /\ audio'.fadeState[1].elapsed = 0
    /\ audio'.volume = audio.volume
    /\ audio'.pending \cap audio.pending = {}
    /\ audio'.pending = {audio'.fadeRaf}

\* C30. Ambient audio cross-fade converges: at most one frame callback is
\* requested at any time; a scene change during a fade cancels the requested
\* frame and starts the fade again from the volumes of that moment; and when
\* frames keep firing, every fade that no scene change and no unmount
\* interrupts ends with the volume of the scene in view at its maxVolume and
\* the other at 0.
C30_FadeConverges ==
  /\ [](Cardinality(audio.pending) <= 1)
  /\ [][RestartsFromCurrent]_vars
  /\ \A n \in 1..MaxFades :
       (audio.mounted /\ audio.fades = n) ~> (~audio.mounted \/ audio.fades # n \/ Settled)

\* C30 witness: a mounted component at rest in the night scene after a fade
\* that a scene change started from volumes in the middle of the fade before
C30_Witness ==
  /\ audio.mounted
  /\ SceneOf(audio.timeOfDay) = "night"
  /\ Settled
  /\ audio.fades >= 2
  /\ audio.fadeState[1].from.day > 0
  /\ audio.fadeState[1].from.day < SCENE_AUDIO.day.maxVolume

====
